---- MODULE Spec2Model ----
(***************************************************************************)
(* Model of the portfolio "latest value" logic of fa_tra_app:              *)
(*   modules/portfolio/ui_portfolio.py      (cell classifiers, resolvers,  *)
(*                                           render_portfolio_page)        *)
(*   modules/portfolio/portfolio_storage.py (PortfolioStorage)             *)
(*   modules/portfolio/portfolio_utils.py   (latest_non_empty_by_column)   *)
(* and of the writes and loads of its stores:                              *)
(*   app.py                                 (Storage, upsert_done_row,     *)
(*                                           upsert_weight, _df_to_sheet)  *)
(*   modules/storage.py                     (SheetsStorage, CSVStorage)    *)
(*   modules/ui_daily.py                    (render_daily)                 *)
(*   modules/report/ui_report.py            (render_report)                *)
(* and of the roadmap and the report:                                      *)
(*   modules/roadmap/roadmap_storage.py     (_norm_ym, load_all)           *)
(*   modules/roadmap/roadmap_logic.py       (pick_active_rows)             *)
(*   modules/roadmap/ui_roadmap.py          (render_roadmap)               *)
(*   modules/report/report_logic.py         (build_report_data)            *)
(*                                                                         *)
(* Python values are records [t, s, n, e]:                                 *)
(*   t = "None" | "str" | "int" | "float" | "nan" | "inf" | "ninf" | "bool"*)
(*       | "date" | "ts" | "NaT"                                           *)
(*   s = the characters of a str (a sequence of one-character strings)     *)
(*   n, e = an int n (e = 0), a bool (n = 1 or 0), the finite float        *)
(*          n / 10^e in lowest decimal form, a date n = yyyymmdd, or a     *)
(*          Timestamp (n = yyyymmdd, e = seconds into the day)             *)
(* A dict is a function from its keys to its values.                       *)
(***************************************************************************)
EXTENDS Integers, Sequences, FiniteSets, TLC

VARIABLES
    arg,      \* SpecCell: the value handed to a cell classifier
    df,       \* SpecDf: the DataFrame handed to the resolvers
    values,   \* Spec: the cells of the portfolio worksheet (get_all_values)
    d,        \* the date selected on the page / given to the lookup
    op,       \* the function that ran last
    ret,      \* what it returned
    page,     \* SpecStore: the script or page whose store is written
    mode,     \* SpecStore: storage.mode of app.py, "SHEETS" or "CSV"
    csv,      \* SpecStore: the rows of the local CSV file (<< >>: no file)
    pc,       \* SpecStore: the call of the handler that comes next
    prior,    \* SpecStore: the worksheet as it was when the write call began
    shown     \* SpecStore: the messages shown in the current script run

\* the variables of the store, which the other specifications leave alone
storeVars == <<page, mode, csv, pc, prior, shown>>

vars == <<arg, df, values, d, op, ret, storeVars>>

\* no store is involved
NoStore ==
    /\ page = "none"
    /\ mode = "SHEETS"
    /\ csv = << >>
    /\ pc = "idle"
    /\ prior = << >>
    /\ shown = {}

\* Only({e : x \in {a}}) is e with x standing for the value of a: a local
\* definition whose value is computed once
Only(S) == CHOOSE x \in S : TRUE

-----------------------------------------------------------------------------
(* Python values *)

PyNone == [t |-> "None", s |-> << >>, n |-> 0, e |-> 0]
PyStr(s) == [t |-> "str", s |-> s, n |-> 0, e |-> 0]
PyInt(n) == [t |-> "int", s |-> << >>, n |-> n, e |-> 0]
PyFloat(n, e) == [t |-> "float", s |-> << >>, n |-> n, e |-> e]
PyNaN == [t |-> "nan", s |-> << >>, n |-> 0, e |-> 0]
PyInf == [t |-> "inf", s |-> << >>, n |-> 0, e |-> 0]
PyNegInf == [t |-> "ninf", s |-> << >>, n |-> 0, e |-> 0]
PyBool(b) == [t |-> "bool", s |-> << >>, n |-> IF b THEN 1 ELSE 0, e |-> 0]
PyTrue == PyBool(TRUE)
PyFalse == PyBool(FALSE)
\* the outcome of a call that raised an exception
Raised == [t |-> "raise", s |-> << >>, n |-> 0, e |-> 0]
\* the call ended with an exception
HasRaised(x) == DOMAIN x = {"t", "s", "n", "e"} /\ x.t = "raise"

IsFloat(v) == v.t \in {"float", "nan", "inf", "ninf"}

-----------------------------------------------------------------------------
(* str methods *)

Whitespace == {" ", "\t"}
Uppers == <<"A","B","C","D","E","F","G","H","I","J","K","L","M",
            "N","O","P","Q","R","S","T","U","V","W","X","Y","Z">>
Lowers == <<"a","b","c","d","e","f","g","h","i","j","k","l","m",
            "n","o","p","q","r","s","t","u","v","w","x","y","z">>
Digits == <<"0","1","2","3","4","5","6","7","8","9">>

IndexOf(seq, c) == CHOOSE i \in DOMAIN seq : seq[i] = c
Has(seq, c) == \E i \in DOMAIN seq : seq[i] = c
MinOf(S) == CHOOSE i \in S : \A j \in S : i <= j
MaxOf(S) == CHOOSE i \in S : \A j \in S : j <= i

LowerChar(c) == IF Has(Uppers, c) THEN Lowers[IndexOf(Uppers, c)] ELSE c
UpperChar(c) == IF Has(Lowers, c) THEN Uppers[IndexOf(Lowers, c)] ELSE c
\* str.lower(), str.upper()
Lower(s) == Only({[i \in DOMAIN t |-> LowerChar(t[i])] : t \in {s}})
Upper(s) == Only({[i \in DOMAIN t |-> UpperChar(t[i])] : t \in {s}})

\* t from its first to its last character that is not whitespace
StripText(t, keep) == IF keep = {} THEN << >> ELSE SubSeq(t, MinOf(keep), MaxOf(keep))
\* str.strip()
Strip(s) ==
    Only({Only({StripText(t, keep) : keep \in {{i \in DOMAIN t : t[i] \notin Whitespace}}})
          : t \in {s}})

IsDigit(c) == Has(Digits, c)
AllDigits(s) == \A c \in {s[i] : i \in DOMAIN s} : IsDigit(c)
DigitVal(c) == IndexOf(Digits, c) - 1
\* the number written by the first k digits of s
RECURSIVE DigitsToIntUpTo(_, _)
DigitsToIntUpTo(s, k) ==
    IF k = 0 THEN 0 ELSE 10 * DigitsToIntUpTo(s, k - 1) + DigitVal(s[k])
DigitsToInt(s) == Only({DigitsToIntUpTo(t, Len(t)) : t \in {s}})
\* the decimal digits of n >= 0
RECURSIVE IntToDigits(_)
IntToDigits(n) ==
    IF n < 10 THEN <<Digits[n + 1]>>
    ELSE Append(IntToDigits(n \div 10), Digits[(n % 10) + 1])
RECURSIVE Pow10(_)
Pow10(k) == IF k = 0 THEN 1 ELSE 10 * Pow10(k - 1)
\* t with zeros put before it up to k characters
ZeroPad(s, k) ==
    Only({[i \in 1..(IF Len(t) >= k THEN 0 ELSE k - Len(t)) |-> "0"] \o t : t \in {s}})
\* s without the zeros at its end
StripTrailingZeros(s) ==
    Only({Only({SubSeq(t, 1, IF nz = {} THEN 0 ELSE MaxOf(nz))
                : nz \in {{i \in DOMAIN t : t[i] # "0"}}})
          : t \in {s}})

\* the literals the code compares against
s_empty == << >>
s_nan == <<"n","a","n">>
s_none == <<"n","o","n","e">>
s_null == <<"n","u","l","l">>
s_inf == <<"i","n","f">>
s_infinity == <<"i","n","f","i","n","i","t","y">>
s_true == <<"t","r","u","e">>
s_false == <<"f","a","l","s","e">>
s_1 == <<"1">>
s_0 == <<"0">>
s_yes == <<"y","e","s">>
s_y == <<"y">>
s_on == <<"o","n">>
s_no == <<"n","o">>
s_n == <<"n">>
s_off == <<"o","f","f">>
s_TRUE == <<"T","R","U","E">>
s_FALSE == <<"F","A","L","S","E">>

\* repr of the finite float with the digits a (its absolute value times 10^e)
FloatText(neg, a, e) ==
    (IF neg THEN <<"-">> ELSE << >>)
        \o IntToDigits(a \div Pow10(e)) \o <<".">>
        \o (IF e = 0 THEN <<"0">> ELSE ZeroPad(IntToDigits(a % Pow10(e)), e))

\* str(v)
Str(v) ==
    Only({CASE x.t = "None" -> <<"N","o","n","e">>
            [] x.t = "str" -> x.s
            [] x.t = "int" ->
                  IF x.n < 0 THEN <<"-">> \o IntToDigits(-x.n) ELSE IntToDigits(x.n)
            [] x.t = "float" -> FloatText(x.n < 0, IF x.n < 0 THEN -x.n ELSE x.n, x.e)
            [] x.t = "nan" -> s_nan
            [] x.t = "inf" -> s_inf
            [] x.t = "ninf" -> <<"-">> \o s_inf
            [] x.t = "bool" ->
                  IF x.n = 1 THEN <<"T","r","u","e">> ELSE <<"F","a","l","s","e">>
          : x \in {v}})

\* the decimal number with integer digits ip and fraction digits fp
DecimalFloat(neg, ip, fp) ==
    IF AllDigits(ip) /\ AllDigits(fp) /\ Len(ip) + Len(fp) >= 1
    THEN Only({PyFloat(IF neg THEN -DigitsToInt(ip \o f) ELSE DigitsToInt(ip \o f), Len(f))
               : f \in {StripTrailingZeros(fp)}})
    ELSE Raised

\* float() of the text body that follows the sign
ParseUnsigned(neg, body) ==
    Only({IF low \in {s_inf, s_infinity} THEN (IF neg THEN PyNegInf ELSE PyInf)
          ELSE IF low = s_nan THEN PyNaN
          ELSE Only({IF dots = {} THEN DecimalFloat(neg, body, << >>)
                     ELSE IF Cardinality(dots) = 1
                     THEN DecimalFloat(neg, SubSeq(body, 1, MinOf(dots) - 1),
                                       SubSeq(body, MinOf(dots) + 1, Len(body)))
                     ELSE Raised
                     : dots \in {{i \in DOMAIN body : body[i] = "."}}})
          : low \in {Lower(body)}})

\* float(s) for a str s: surrounding whitespace, an optional sign, then
\* inf / infinity / nan in any case, or decimal digits with at most one point
\* (exponent and underscore forms are outside the modelled inputs)
ParseFloat(s) ==
    Only({IF t # << >> /\ Head(t) \in {"+", "-"}
          THEN ParseUnsigned(Head(t) = "-", Tail(t))
          ELSE ParseUnsigned(FALSE, t)
          : t \in {Strip(s)}})

\* float(v)
Float(v) ==
    Only({CASE x.t = "None" -> Raised
            [] x.t = "str" -> ParseFloat(x.s)
            [] x.t \in {"int", "bool"} -> PyFloat(x.n, 0)
            [] OTHER -> x
          : x \in {v}})

\* pd.isna(x) for a scalar
IsNa(v) == v.t \in {"None", "nan", "NaT"}

-----------------------------------------------------------------------------
(* ui_portfolio.py / portfolio_storage.py: cell classifiers *)

\* _is_blank without the lower-casing of the text
_is_blank_case_sensitive(v) ==
    \E x \in {v} :
        IF x = PyNone THEN TRUE
        ELSE \E s \in {Strip(Str(x))} : s = s_empty \/ s \in {s_nan, s_none}

\* ui_portfolio._is_blank
_is_blank(v) ==
    \E x \in {v} :
        IF x = PyNone THEN TRUE
        ELSE \E s \in {Strip(Str(x))} : s = s_empty \/ Lower(s) \in {s_nan, s_none}

\* ui_portfolio._to_float_or_none (an exception of float() is caught)
_to_float_or_none(v) ==
    Only({IF _is_blank(x) THEN PyNone
          ELSE Only({IF fv = Raised THEN PyNone
                     ELSE IF IsNa(fv) THEN PyNone
                     ELSE fv
                     : fv \in {Float(x)}})
          : x \in {v}})

\* _valid_numeric without the test for 0
_valid_numeric_zero_kept(v) == _to_float_or_none(v)

\* ui_portfolio._valid_numeric
_valid_numeric(v) ==
    Only({IF fv = PyNone THEN PyNone
          ELSE IF fv.t = "float" /\ fv.n = 0 THEN PyNone
          ELSE fv
          : fv \in {_to_float_or_none(v)}})

\* ui_portfolio._valid_text
_valid_text(v) ==
    Only({IF _is_blank(x) THEN PyNone
          ELSE Only({IF s = s_empty \/ Lower(s) = s_nan THEN PyNone ELSE PyStr(s)
                     : s \in {Strip(Str(x))}})
          : x \in {v}})

\* _valid_bool without the tokens of False
_valid_bool_true_only(v) ==
    Only({IF x = PyNone THEN PyNone
          ELSE IF x.t = "bool" THEN x
          ELSE Only({IF s \in {s_true, s_1, s_yes, s_y, s_on} THEN PyTrue ELSE PyNone
                     : s \in {Lower(Strip(Str(x)))}})
          : x \in {v}})

\* ui_portfolio._valid_bool
_valid_bool(v) ==
    Only({IF x = PyNone THEN PyNone
          ELSE IF x.t = "bool" THEN x
          ELSE Only({IF s \in {s_true, s_1, s_yes, s_y, s_on} THEN PyTrue
                     ELSE IF s \in {s_false, s_0, s_no, s_n, s_off} THEN PyFalse
                     ELSE PyNone
                     : s \in {Lower(Strip(Str(x)))}})
          : x \in {v}})

\* portfolio_storage._is_blank_like (bool is a subclass of int)
_is_blank_like(v) ==
    \E x \in {v} :
        IF x = PyNone THEN TRUE
        ELSE IF x.t = "str"
             THEN \E s \in {Strip(x.s)} : s = s_empty \/ Lower(s) = s_nan
        ELSE IF x.t \in {"int", "bool"} \/ IsFloat(x)
             THEN \E f \in {Float(x)} : f.t = "float" /\ f.n = 0
        ELSE FALSE

-----------------------------------------------------------------------------
(* dates, timestamps and their order *)

\* a datetime.date, n = yyyymmdd
PyDate(n) == [t |-> "date", s |-> << >>, n |-> n, e |-> 0]
\* a pandas Timestamp: n = yyyymmdd, e = seconds into the day
Timestamp(n, e) == [t |-> "ts", s |-> << >>, n |-> n, e |-> e]
NaT == [t |-> "NaT", s |-> << >>, n |-> 0, e |-> 0]

\* date.isoformat()
isoformat(dv) ==
    ZeroPad(IntToDigits(dv.n \div 10000), 4) \o <<"-">>
        \o ZeroPad(IntToDigits((dv.n \div 100) % 100), 2) \o <<"-">>
        \o ZeroPad(IntToDigits(dv.n % 100), 2)

\* s.split(sep): the fields between the places where sep stands
SplitAt(t, at) ==
    [k \in 1..(Cardinality(at) + 1) |->
        SubSeq(t,
               IF k = 1 THEN 1 ELSE MaxOf({i \in at : Cardinality({j \in at : j <= i}) = k - 1}) + 1,
               IF k = Cardinality(at) + 1 THEN Len(t)
               ELSE MaxOf({i \in at : Cardinality({j \in at : j <= i}) = k}) - 1)]
SplitOn(s, sep) ==
    Only({Only({SplitAt(t, at) : at \in {{i \in DOMAIN t : t[i] = sep}}}) : t \in {s}})

DaysInMonth(y, m) ==
    IF m \in {4, 6, 9, 11} THEN 30
    ELSE IF m = 2
         THEN (IF (y % 4 = 0 /\ y % 100 # 0) \/ y % 400 = 0 THEN 29 ELSE 28)
    ELSE 31

NumField(f, lo, hi) == f # << >> /\ AllDigits(f) /\ Len(f) >= lo /\ Len(f) <= hi

\* the calendar day written by the fields f (year, month, day), 0 if none
DayOfFields(f) ==
    IF Len(f) = 3 /\ NumField(f[1], 4, 4) /\ NumField(f[2], 1, 2) /\ NumField(f[3], 1, 2)
    THEN Only({IF m \in 1..12 /\ dd >= 1 /\ dd <= DaysInMonth(y, m)
               THEN 10000 * y + 100 * m + dd ELSE 0
               : y \in {DigitsToInt(f[1])}, m \in {DigitsToInt(f[2])},
                 dd \in {DigitsToInt(f[3])}})
    ELSE 0

\* the seconds into the day written by the fields f (H, M and maybe S), -1 if none
SecondsOfFields(f) ==
    IF Len(f) \in {2, 3} /\ \A i \in DOMAIN f : NumField(f[i], 1, 2)
    THEN Only({IF h < 24 /\ m < 60 /\ sec < 60 THEN 3600 * h + 60 * m + sec ELSE -1
               : h \in {DigitsToInt(f[1])}, m \in {DigitsToInt(f[2])},
                 sec \in {IF Len(f) = 3 THEN DigitsToInt(f[3]) ELSE 0}})
    ELSE -1

\* the Timestamp of the date text dpart and the time fields tf
TimestampOf(day, secs) == IF day = 0 \/ secs < 0 THEN NaT ELSE Timestamp(day, secs)

\* pd.to_datetime(x, errors="coerce") of one cell.  Modelled element by
\* element for the texts  Y-M-D  and  Y/M/D  with an optional " H:M[:S]";
\* None, NaN and every other text of the modelled inputs give NaT.
to_datetime(v) ==
    Only({IF x.t # "str" THEN NaT
          ELSE Only({IF Len(parts) > 2 THEN NaT
                     ELSE TimestampOf(
                            DayOfFields(SplitOn(parts[1],
                                                IF Has(parts[1], "-") THEN "-" ELSE "/")),
                            IF Len(parts) = 1 THEN 0
                            ELSE SecondsOfFields(SplitOn(parts[2], ":")))
                     : parts \in {SplitOn(x.s, " ")}})
          : x \in {v}})

\* the characters of the modelled texts in code-point order
CodePoints == <<"\t", " ", "+", "-", ".", "/">> \o Digits \o <<":">> \o Uppers \o Lowers
Ord(c) == IndexOf(CodePoints, c)

\* a < b for two str values (Python compares code point by code point)
StrLess(a, b) ==
    \E k \in 1..(Len(b)) :
        /\ \A i \in 1..(k - 1) : i <= Len(a) /\ a[i] = b[i]
        /\ \/ k = Len(a) + 1
           \/ k <= Len(a) /\ Ord(a[k]) < Ord(b[k])

\* a < b for two Timestamps
TsLess(a, b) == a.n < b.n \/ (a.n = b.n /\ a.e < b.e)

\* all orders of the rows 1..n
Perms(n) == {p \in [1..n -> 1..n] : \A i, j \in 1..n : i # j => p[i] # p[j]}
PosIn(p, i) == CHOOSE k \in DOMAIN p : p[k] = i

-----------------------------------------------------------------------------
(* DataFrames: [columns |-> the column labels in order,                    *)
(*              rows    |-> the rows in index order, each a function from  *)
(*                          the column labels to the cell values]          *)

\* portfolio_storage.PORTFOLIO_COLUMNS
PORTFOLIO_COLUMNS ==
    <<"date", "height_cm", "weight_kg", "bmi", "run_100m_sec", "run_1500m_sec",
      "run_3000m_sec", "track_meet", "rank", "deviation", "score_jp", "score_math",
      "score_en", "score_sci", "score_soc", "rating", "tcenter", "soccer_tournament",
      "match_result", "video_url", "video_note", "note">>

\* the list of numeric columns in _latest_values_from_df, _values_for_selected_date
\* and read_df
numeric_cols ==
    {"height_cm", "weight_kg", "bmi", "run_100m_sec", "run_1500m_sec", "run_3000m_sec",
     "rank", "deviation", "score_jp", "score_math", "score_en", "score_sci",
     "score_soc", "rating"}

\* text_cols of _values_for_selected_date
text_cols ==
    {"track_meet", "soccer_tournament", "match_result", "video_url", "video_note", "note"}

Range(seq) == {seq[i] : i \in DOMAIN seq}
PortfolioColumnSet == Range(PORTFOLIO_COLUMNS)

\* pd.DataFrame(columns=cols)
EmptyDataFrame(cols) == [columns |-> cols, rows |-> << >>]
\* df.empty
DfEmpty(f) == f.rows = << >> \/ f.columns = << >>
\* c in df.columns
HasCol(f, c) == Has(f.columns, c)
NRows(f) == Len(f.rows)
\* a dict with no key
EmptyDict == << >>
\* row.get(c, None)
RowGet(row, c) == IF c \in DOMAIN row THEN row[c] ELSE PyNone

\* the row orders a sort may return: every order that puts i before j for
\* each pair <<i, j>> of before
OrdersWhere(n, before) ==
    Only({{p \in Perms(n) : \A pr \in b : PosIn(p, pr[1]) < PosIn(p, pr[2])}
          : b \in {before}})

\* order of two keys of a datetime column, NaT last
DtLess(a, b) == (a # NaT /\ b = NaT) \/ (a # NaT /\ b # NaT /\ TsLess(a, b))
\* order of two keys of the date column (text; None / NaN last)
DateLess(a, b) ==
    (a.t = "str" /\ b.t # "str") \/ (a.t = "str" /\ b.t = "str" /\ StrLess(a.s, b.s))
DateTie(a, b) == a = b \/ (a.t # "str" /\ b.t # "str")

\* one row of _normalize_df's result: the missing columns filled with "",
\* _date_dt set from date
NormalizeRow(row, cols) ==
    Only({[c \in Range(cols) \cup {"_date_dt"} |->
              IF c = "_date_dt" THEN dt
              ELSE IF c \in DOMAIN row THEN row[c] ELSE PyStr(s_empty)]
          : dt \in {to_datetime(IF "date" \in DOMAIN row THEN row["date"]
                                ELSE PyStr(s_empty))}})

\* ui_portfolio._normalize_df: adds the missing columns and _date_dt to the
\* DataFrame it is given and returns it
_normalize_df(f) ==
    IF DfEmpty(f) THEN EmptyDataFrame(PORTFOLIO_COLUMNS)
    ELSE Only({[columns |-> IF Has(cols, "_date_dt") THEN cols
                            ELSE Append(cols, "_date_dt"),
                rows |-> [i \in DOMAIN f.rows |-> NormalizeRow(f.rows[i], cols)]]
               : cols \in {f.columns
                             \o SelectSeq(PORTFOLIO_COLUMNS, LAMBDA c : ~HasCol(f, c))}})

\* a sort that leaves the rows as they were appended
InsertionOrder(f, i, j) == i < j

\* dfx.sort_values(by=["_date_dt", "date"], ascending=True, na_position="last"):
\* is row i put before row j?  (two keys: a stable lexsort)
SortByDateDtAndDate(f, i, j) ==
    \E ti \in {f.rows[i]["_date_dt"]}, tj \in {f.rows[j]["_date_dt"]},
       di \in {f.rows[i]["date"]}, dj \in {f.rows[j]["date"]} :
        \/ DtLess(ti, tj)
        \/ /\ ~DtLess(tj, ti)
           /\ \/ DateLess(di, dj)
              \/ DateTie(di, dj) /\ i < j

\* dfx.sort_values(by=["date"], ascending=True): one key, pandas' default
\* quicksort, which keeps no order among equal keys; missing keys go last in
\* row order
SortByDate(f, i, j) ==
    \E di \in {f.rows[i]["date"]}, dj \in {f.rows[j]["date"]} :
        DateLess(di, dj) \/ (di.t # "str" /\ dj.t # "str" /\ i < j)

\* the row orders the sort of _latest_values_from_df may produce
LatestSortOrders(f) ==
    IF ~HasCol(f, "date") THEN {<< >>}
    ELSE IF HasCol(f, "_date_dt")
    THEN OrdersWhere(NRows(f), {pr \in (1..NRows(f)) \X (1..NRows(f)) :
                                   SortByDateDtAndDate(f, pr[1], pr[2])})
    ELSE OrdersWhere(NRows(f), {pr \in (1..NRows(f)) \X (1..NRows(f)) :
                                   SortByDate(f, pr[1], pr[2])})

\* the validity test _latest_values_from_df applies to a cell of column col
LatestValid(col, v) ==
    IF col = "tcenter"
    THEN (IF _is_blank(v) THEN PyNone ELSE _valid_bool(v))
    ELSE IF col \in numeric_cols THEN _valid_numeric(v)
    ELSE _valid_text(v)

\* the dict of the first valid entry of each column in scan order
FirstValid(valid) ==
    [c \in {k \in DOMAIN valid : \E p \in DOMAIN valid[k] : valid[k][p] # PyNone} |->
        valid[c][MinOf({p \in DOMAIN valid[c] : valid[c][p] # PyNone})]]

\* the dict of the last valid entry of each column, valid[c] being the
\* validated cells of column c in scan order
LastValid(valid) ==
    [c \in {k \in DOMAIN valid : \E p \in DOMAIN valid[k] : valid[k][p] # PyNone} |->
        valid[c][MaxOf({p \in DOMAIN valid[c] : valid[c][p] # PyNone})]]

\* _latest_values_from_df taking every column from one record: the last
\* record in scan order that holds a valid value in a column other than date
_latest_values_from_df_whole_row(f, order) ==
    IF DfEmpty(f) THEN EmptyDict
    ELSE IF ~HasCol(f, "date") THEN Raised
    ELSE Only({IF ps = {} THEN EmptyDict
               ELSE LastValid([c \in {k \in PortfolioColumnSet : HasCol(f, k)} |->
                                 [p \in {MaxOf(ps)} |->
                                     LatestValid(c, f.rows[order[p]][c])]])
               : ps \in {{p \in DOMAIN order :
                            \E c \in PortfolioColumnSet \ {"date"} :
                                HasCol(f, c) /\ LatestValid(c, f.rows[order[p]][c]) # PyNone}}})

\* ui_portfolio._latest_values_from_df, given the order its sort produced
_latest_values_from_df(f, order) ==
    IF DfEmpty(f) THEN EmptyDict
    ELSE IF ~HasCol(f, "date") THEN Raised
    ELSE LastValid([c \in {k \in PortfolioColumnSet : HasCol(f, k)} |->
                       [p \in DOMAIN order |-> LatestValid(c, f.rows[order[p]][c])]])

\* the dict _values_for_selected_date builds from the row it picked
SelectedRowValues(row) ==
    Only({[c \in {k \in DOMAIN val : val[k] # PyNone} |-> val[c]]
          : val \in {[c \in numeric_cols \cup text_cols \cup {"tcenter"} |->
                        IF c \in numeric_cols THEN _valid_numeric(RowGet(row, c))
                        ELSE IF c \in text_cols THEN _valid_text(RowGet(row, c))
                        ELSE _valid_bool(RowGet(row, c))]}})

\* _values_for_selected_date falling back to the last row of the table when
\* no row is of the selected date
_values_for_selected_date_fallback(f, dv) ==
    IF DfEmpty(f) \/ ~HasCol(f, "date") THEN EmptyDict
    ELSE Only({SelectedRowValues(f.rows[IF hit = {} THEN NRows(f) ELSE MaxOf(hit)])
               : hit \in {Only({{i \in DOMAIN f.rows : Str(f.rows[i]["date"]) = key}
                                : key \in {isoformat(dv)}})}})

\* _values_for_selected_date matching the rows by the calendar day their
\* date cell denotes
_values_for_selected_date_by_day(f, dv) ==
    IF DfEmpty(f) \/ ~HasCol(f, "date") THEN EmptyDict
    ELSE Only({IF hit = {} THEN EmptyDict ELSE SelectedRowValues(f.rows[MaxOf(hit)])
               : hit \in {{i \in DOMAIN f.rows :
                             \E t \in {to_datetime(f.rows[i]["date"])} :
                                 t # NaT /\ t.n = dv.n}}})

\* _values_for_selected_date taking the first row of the selected date
_values_for_selected_date_first(f, dv) ==
    IF DfEmpty(f) \/ ~HasCol(f, "date") THEN EmptyDict
    ELSE Only({IF hit = {} THEN EmptyDict ELSE SelectedRowValues(f.rows[MinOf(hit)])
               : hit \in {Only({{i \in DOMAIN f.rows : Str(f.rows[i]["date"]) = key}
                                : key \in {isoformat(dv)}})}})

\* ui_portfolio._values_for_selected_date
_values_for_selected_date(f, dv) ==
    IF DfEmpty(f) \/ ~HasCol(f, "date") THEN EmptyDict
    ELSE Only({IF hit = {} THEN EmptyDict ELSE SelectedRowValues(f.rows[MaxOf(hit)])
               : hit \in {Only({{i \in DOMAIN f.rows : Str(f.rows[i]["date"]) = key}
                                : key \in {isoformat(dv)}})}})

\* df2.sort_values(["__date_sort__"], ascending=True) in
\* latest_non_empty_by_column: one key, default quicksort, NaT last in row order
SortByDateSort(dts, i, j) ==
    DtLess(dts[i], dts[j]) \/ (dts[i] = NaT /\ dts[j] = NaT /\ i < j)

\* the row orders the sort of latest_non_empty_by_column may produce
UtilsSortOrders(f) ==
    IF ~HasCol(f, "date") THEN {<< >>}
    ELSE Only({OrdersWhere(NRows(f), {pr \in (1..NRows(f)) \X (1..NRows(f)) :
                                         SortByDateSort(dts, pr[1], pr[2])})
               : dts \in {[i \in DOMAIN f.rows |-> to_datetime(f.rows[i]["date"])]}})

\* the text latest_non_empty_by_column reads from a cell
UtilsVal(v) == IF IsNa(v) THEN s_empty ELSE Strip(Str(v))

\* portfolio_utils.latest_non_empty_by_column, given the order its sort produced
latest_non_empty_by_column(f, order) ==
    IF DfEmpty(f) THEN [c \in PortfolioColumnSet |-> PyStr(s_empty)]
    ELSE IF ~HasCol(f, "date") THEN Raised
    ELSE [c \in PortfolioColumnSet |->
            IF c = "bmi" THEN PyStr(s_empty)
            ELSE Only({IF hits = {} THEN PyStr(s_empty)
                       ELSE PyStr(UtilsVal(RowGet(f.rows[order[MaxOf(hits)]], c)))
                       : hits \in {{p \in DOMAIN order :
                                      UtilsVal(RowGet(f.rows[order[p]], c)) # s_empty}}})]

-----------------------------------------------------------------------------
(* SpecCell: the cell classifiers applied to one value *)

\* the most whitespace put on either side of an input text
MaxPad == 1

\* the texts the inputs are built from, in lower case
Tokens ==
    {<<>>, <<"n", "a", "n">>, <<"n", "o", "n", "e">>, <<"n", "u", "l", "l">>,
     <<"t", "r", "u", "e">>, <<"1">>, <<"y", "e", "s">>, <<"y">>, <<"o", "n">>,
     <<"f", "a", "l", "s", "e">>, <<"0">>, <<"n", "o">>, <<"n">>, <<"o", "f", "f">>,
     <<"0", ".", "0">>, <<"7", "0">>, <<"7", "0", ".", "5">>, <<"-", "1">>,
     <<"i", "n", "f">>, <<"-", "i", "n", "f">>,
     <<"i", "n", "f", "i", "n", "i", "t", "y">>, <<"a", "b", "c">>, <<"o", "k">>,
     <<"o", " ", "k">>, <<"0", "0">>, <<".", "5">>, <<"1", ".", "0">>, <<"+", "0">>,
     <<"-", "0", ".", "0">>, <<"1", ".">>, <<".">>, <<"t">>, <<"n", "i", "l">>}

Capitalize(s) == IF s = << >> THEN s ELSE <<UpperChar(Head(s))>> \o Tail(s)
Spaces(k) == [i \in 1..k |-> " "]
TextInputs ==
    {Spaces(l) \o c \o Spaces(r) :
        c \in UNION {{t, Upper(t), Capitalize(t)} : t \in Tokens},
        l \in 0..MaxPad, r \in 0..MaxPad}

\* the values a cell may hold
CellInputs ==
    {PyStr(s) : s \in TextInputs}
        \cup {PyNone, PyNaN, PyInf, PyNegInf, PyTrue, PyFalse,
              PyInt(0), PyInt(1), PyInt(70),
              PyFloat(0, 0), PyFloat(1, 0), PyFloat(70, 0), PyFloat(705, 1), PyFloat(-5, 1)}

\* the date of the records of TcenterTable
TcenterDay == PyDate(20240202)

BlankRow(date) ==
    [c \in Range(PORTFOLIO_COLUMNS) |-> IF c = "date" THEN date ELSE PyStr(s_empty)]

\* two records of one date: the first with tcenter True, the second with
\* tcenter v
TcenterTable(v) ==
    [columns |-> PORTFOLIO_COLUMNS,
     rows |-> <<[BlankRow(PyStr(isoformat(TcenterDay))) EXCEPT !["tcenter"] = PyTrue],
                [BlankRow(PyStr(isoformat(TcenterDay))) EXCEPT !["tcenter"] = v]>>]

InitCell ==
    /\ arg \in CellInputs
    /\ df = EmptyDataFrame(PORTFOLIO_COLUMNS)
    /\ values = << >>
    /\ d = TcenterDay
    /\ op = "input"
    /\ ret = PyNone
    /\ NoStore

Call_is_blank ==
    /\ op' = "_is_blank"
    /\ ret' = PyBool(_is_blank(arg))
    /\ UNCHANGED <<storeVars, arg, df, values, d>>

Call_valid_numeric ==
    /\ op' = "_valid_numeric"
    /\ ret' = _valid_numeric(arg)
    /\ UNCHANGED <<storeVars, arg, df, values, d>>

Call_valid_text ==
    /\ op' = "_valid_text"
    /\ ret' = _valid_text(arg)
    /\ UNCHANGED <<storeVars, arg, df, values, d>>

Call_valid_bool ==
    /\ op' = "_valid_bool"
    /\ ret' = _valid_bool(arg)
    /\ UNCHANGED <<storeVars, arg, df, values, d>>

Call_is_blank_like ==
    /\ op' = "_is_blank_like"
    /\ ret' = PyBool(_is_blank_like(arg))
    /\ UNCHANGED <<storeVars, arg, df, values, d>>

\* the resolver on a normalised table whose latest tcenter cell is arg
ResolveTcenter ==
    /\ df' = _normalize_df(TcenterTable(arg))
    /\ \E order \in LatestSortOrders(df') :
          ret' = _latest_values_from_df(df', order)
    /\ op' = "_latest_values_from_df"
    /\ UNCHANGED <<storeVars, arg, values, d>>

\* the exact-date lookup on that table
LookupTcenter ==
    /\ df' = _normalize_df(TcenterTable(arg))
    /\ ret' = _values_for_selected_date(df', d)
    /\ op' = "_values_for_selected_date"
    /\ UNCHANGED <<storeVars, arg, values, d>>

NextCell ==
    \/ Call_is_blank
    \/ Call_valid_numeric
    \/ Call_valid_text
    \/ Call_valid_bool
    \/ Call_is_blank_like
    \/ ResolveTcenter
    \/ LookupTcenter

SpecCell == InitCell /\ [][NextCell]_vars

-----------------------------------------------------------------------------
(* SpecDf: the resolvers applied to a table of records *)

\* the most records of an input table
MaxRows == 2

Day1 == PyDate(20240201)
Day2 == PyDate(20240202)
Day3 == PyDate(20240203)
\* the dates that can be selected
SelDates == {Day1, Day2, Day3}

\* the date dv written without leading zeros, as in 2024-2-2
Unpadded(dv) ==
    IntToDigits(dv.n \div 10000) \o <<"-">> \o IntToDigits((dv.n \div 100) % 100)
        \o <<"-">> \o IntToDigits(dv.n % 100)

\* the date cells of the input records: two days in ISO form, the second day
\* also written without leading zeros, and a text that is no date (to_datetime
\* reads a column of these the same way whether it parses cell by cell or with
\* one format for the column)
DateCells ==
    {PyStr(isoformat(Day1)), PyStr(isoformat(Day2)), PyStr(Unpadded(Day2)),
     PyStr(<<"b","a","d">>)}
WeightCells == {PyFloat(0, 0), PyFloat(70, 0), PyFloat(655, 1)}
NoteCells == {PyStr(s_empty), PyStr(<<"o","k">>)}
TcenterCells == {PyStr(s_empty), PyTrue, PyFalse}

DfRow(date, weight, note, tc) ==
    [c \in PortfolioColumnSet |->
        CASE c = "date" -> date
          [] c = "weight_kg" -> weight
          [] c = "note" -> note
          [] c = "tcenter" -> tc
          [] OTHER -> PyStr(s_empty)]

\* the input records: every date cell with every weight, and on the second
\* day every note and tcenter cell
RowInputs ==
    {DfRow(dt, w, PyStr(s_empty), PyStr(s_empty)) : dt \in DateCells, w \in WeightCells}
        \cup {DfRow(PyStr(isoformat(Day2)), PyFloat(0, 0), nt, tc) :
                 nt \in NoteCells, tc \in TcenterCells}

\* the identity order of n rows
RowOrder(n) == [i \in 1..n |-> i]

InitDf ==
    /\ arg = PyNone
    /\ \E n \in 0..MaxRows :
          \E rows \in [1..n -> RowInputs] :
              df = [columns |-> PORTFOLIO_COLUMNS, rows |-> rows]
    /\ values = << >>
    /\ d = Day1
    /\ op = "input"
    /\ ret = PyNone
    /\ NoStore

\* _normalize_df(df): a table with rows is changed itself and returned, an
\* empty one is left as it is and a new empty table returned
DfNormalize ==
    /\ df' = IF DfEmpty(df) THEN df ELSE _normalize_df(df)
    /\ op' = "_normalize_df"
    /\ ret' = _normalize_df(df)
    /\ UNCHANGED <<storeVars, arg, values, d>>

\* _latest_values_from_df(df)
DfLatest ==
    /\ \E order \in LatestSortOrders(df) :
          ret' = _latest_values_from_df(df, order)
    /\ op' = "_latest_values_from_df"
    /\ UNCHANGED <<storeVars, arg, df, values, d>>

\* _values_for_selected_date(df, dv)
DfLookup ==
    /\ \E dv \in SelDates :
          /\ d' = dv
          /\ ret' = _values_for_selected_date(df, dv)
    /\ op' = "_values_for_selected_date"
    /\ UNCHANGED <<storeVars, arg, df, values>>

\* latest_non_empty_by_column(df)
DfUtilsLatest ==
    /\ \E order \in UtilsSortOrders(df) :
          ret' = latest_non_empty_by_column(df, order)
    /\ op' = "latest_non_empty_by_column"
    /\ UNCHANGED <<storeVars, arg, df, values, d>>

NextDf ==
    \/ DfNormalize
    \/ DfLatest
    \/ DfLookup
    \/ DfUtilsLatest

SpecDf == InitDf /\ [][NextDf]_vars

-----------------------------------------------------------------------------
(* SpecCols: the resolvers applied to tables that lack columns and hold
   cells of several types *)

\* the columns an input table may lack
DroppedColumns == {"date", "weight_kg", "note"}

\* PORTFOLIO_COLUMNS without the columns of drop
ColumnsWithout(drop) == SelectSeq(PORTFOLIO_COLUMNS, LAMBDA c : c \notin drop)

\* the date and weight cells of these tables: texts, numbers and None mixed
ColsDateCells == {PyStr(isoformat(Day1)), PyStr(<<"b","a","d">>), PyNone}
ColsWeightCells == {PyFloat(70, 0), PyStr(<<"a","b","c">>), PyStr(<<"6","5",".","5">>), PyNone}

\* the record with date cell dt and weight cell w, cut down to the columns cols
ColsRow(cols, dt, w) ==
    [c \in Range(cols) |->
        DfRow(dt, w, PyStr(<<"o","k">>), PyStr(s_empty))[c]]

InitCols ==
    /\ arg = PyNone
    /\ \E drop \in SUBSET DroppedColumns :
          \E n \in 0..MaxRows :
              \E rows \in [1..n -> {ColsRow(ColumnsWithout(drop), dt, w) :
                                       dt \in ColsDateCells, w \in ColsWeightCells}] :
                  df = [columns |-> ColumnsWithout(drop), rows |-> rows]
    /\ values = << >>
    /\ d = Day1
    /\ op = "input"
    /\ ret = PyNone
    /\ NoStore

SpecCols == InitCols /\ [][NextDf]_vars

-----------------------------------------------------------------------------
(* portfolio_storage.py: the worksheet and PortfolioStorage *)

\* the worksheet as ws.get_all_values() returns it: values[1] is the header
\* row, every later row the texts of the cells of one record

\* the place of column c in a row of the sheet
ColIndex(c) == IndexOf(PORTFOLIO_COLUMNS, c)

\* the text the sheet shows for a number written to a cell
NumberText(v) ==
    Only({IF x.t = "float" /\ x.e = 0 THEN Str(PyInt(x.n)) ELSE Str(x) : x \in {v}})

\* the text get_all_values returns for a value appended with
\* value_input_option="USER_ENTERED": a number in the sheet's number format,
\* a bool as TRUE / FALSE, a text that reads as a number or a bool as if it
\* had been typed into the cell, any other text as it is
SheetText(v) ==
    Only({CASE x.t \in {"int", "float"} -> NumberText(x)
            [] x.t = "bool" -> IF x.n = 1 THEN s_TRUE ELSE s_FALSE
            [] x.t = "str" ->
                  Only({IF f.t \in {"int", "float"} THEN NumberText(f)
                        ELSE IF Lower(x.s) \in {s_true, s_false} THEN Upper(x.s)
                        ELSE x.s
                        : f \in {ParseFloat(x.s)}})
            [] OTHER -> Str(x)
          : x \in {v}})

\* the header test of ensure_header: no row at all, or PORTFOLIO_COLUMNS first
HeaderOk(vals) == IF vals = << >> THEN TRUE ELSE vals[1] = PORTFOLIO_COLUMNS

\* PortfolioStorage.ensure_header: the sheet afterwards, Raised for a header
\* that is not PORTFOLIO_COLUMNS
ensure_header(vals) ==
    IF vals = << >> THEN <<PORTFOLIO_COLUMNS>>
    ELSE IF vals[1] # PORTFOLIO_COLUMNS THEN Raised
    ELSE vals

\* is the text an integer literal for pd.to_numeric?
IsIntText(s) ==
    \E t \in {Strip(s)} :
        \E body \in {IF t # << >> /\ Head(t) \in {"+", "-"} THEN Tail(t) ELSE t} :
            body # << >> /\ AllDigits(body)

\* pd.to_numeric(col, errors="coerce") of a column of texts: int64 if every
\* cell is an integer literal, else float64 with NaN for what is no number
to_numeric(col) ==
    IF \A i \in DOMAIN col : IsIntText(col[i])
    THEN [i \in DOMAIN col |-> PyInt(ParseFloat(col[i]).n)]
    ELSE [i \in DOMAIN col |->
            Only({IF f = Raised THEN PyNaN ELSE f : f \in {ParseFloat(col[i])}})]

\* df["tcenter"].astype(str).str.upper().map({"TRUE": True, "FALSE": False})
TcenterMap(s) ==
    Only({IF u = s_TRUE THEN PyTrue ELSE IF u = s_FALSE THEN PyFalse ELSE PyNaN
          : u \in {Upper(s)}})

\* the column named c of the data rows, as texts
SheetColumn(vals, c) ==
    Only({[i \in 1..(Len(vals) - 1) |-> vals[i + 1][k]] : k \in {IndexOf(vals[1], c)}})

\* PortfolioStorage.read_df
read_df(vals) ==
    IF Len(vals) <= 1 THEN EmptyDataFrame(PORTFOLIO_COLUMNS)
    ELSE Only({[columns |-> vals[1],
                rows |-> [i \in 1..(Len(vals) - 1) |-> [c \in Range(vals[1]) |-> cols[c][i]]]]
               : cols \in {[c \in Range(vals[1]) |->
                              Only({IF c \in numeric_cols THEN to_numeric(col)
                                    ELSE IF c = "tcenter"
                                    THEN [i \in DOMAIN col |-> TcenterMap(col[i])]
                                    ELSE [i \in DOMAIN col |-> PyStr(col[i])]
                                    : col \in {SheetColumn(vals, c)}})]}})

\* PortfolioStorage.append_row: the sheet afterwards
append_row(vals, row) ==
    Append(vals,
           [k \in DOMAIN PORTFOLIO_COLUMNS |->
               Only({IF _is_blank_like(v) THEN s_empty ELSE SheetText(v)
                     : v \in {IF PORTFOLIO_COLUMNS[k] \in DOMAIN row
                              THEN row[PORTFOLIO_COLUMNS[k]] ELSE PyStr(s_empty)}})])

\* PortfolioStorage.get_latest_values
get_latest_values(vals) ==
    Only({IF DfEmpty(f) THEN EmptyDict
          ELSE Only({[c \in {k \in DOMAIN hits : hits[k] # {}} |->
                         f.rows[MaxOf(hits[c])][c]]
                     : hits \in {[c \in {k \in PortfolioColumnSet \ {"date"} : HasCol(f, k)} |->
                                    {i \in DOMAIN f.rows : ~_is_blank_like(f.rows[i][c])}]}})
          : f \in {read_df(vals)}})

-----------------------------------------------------------------------------
(* ui_portfolio.py: the portfolio page *)

\* ui_portfolio._bmi: round(weight_kg / (m * m), 2) with m = height_cm / 100,
\* None unless both are positive (the quotient of the modelled inputs is no
\* tie of the rounding)
_bmi(height_cm, weight_kg) ==
    IF height_cm.n <= 0 \/ weight_kg.n <= 0 THEN PyNone
    ELSE Only({Only({IF q % 100 = 0 THEN PyFloat(q \div 100, 0)
                     ELSE IF q % 10 = 0 THEN PyFloat(q \div 10, 1)
                     ELSE PyFloat(q, 2)
                     : q \in {(2 * 100 * num + den) \div (2 * den)}})
               : num \in {weight_kg.n * 10000 * Pow10(2 * height_cm.e)},
                 den \in {height_cm.n * height_cm.n * Pow10(weight_kg.e)}})

\* ui_portfolio._try_get_all_df: PortfolioStorage has none of load_all_df,
\* load_all, load_all_records, get_all_df, so the loop finds nothing
_try_get_all_df(vals) == EmptyDataFrame(PORTFOLIO_COLUMNS)

\* render_portfolio_page with a previous value that looks only at the
\* records dated up to the selected date
render_portfolio_page_as_of(vals, dv) ==
    Only({[df_all |-> df_all,
           latest_all |->
               get_latest_values(
                   <<vals[1]>> \o SelectSeq(Tail(vals),
                                            LAMBDA r : ~StrLess(isoformat(dv), r[ColIndex("date")]))),
           selected_values |-> _values_for_selected_date(df_all, dv)]
          : df_all \in {_normalize_df(_try_get_all_df(vals))}})

\* render_portfolio_page up to the form, on the sheet that ensure_header
\* left and with dv in the date input: the table it loaded, the previous
\* values it shows (latest_all) and the values it puts into the form
\* (selected_values)
render_portfolio_page(vals, dv) ==
    Only({Only({[df_all |-> df_all,
                 latest_all |-> IF latest_from_df # EmptyDict THEN latest_from_df
                                ELSE get_latest_values(vals),
                 selected_values |-> _values_for_selected_date(df_all, dv)]
                : latest_from_df \in {_latest_values_from_df(df_all, << >>)}})
          : df_all \in {_normalize_df(_try_get_all_df(vals))}})

\* the row the save button builds from the form
FormRow(dv, height_cm, weight_kg, note, tcenter) ==
    Only({[c \in PortfolioColumnSet |->
             CASE c = "date" -> PyStr(isoformat(dv))
               [] c = "height_cm" -> height_cm
               [] c = "weight_kg" -> weight_kg
               [] c = "bmi" -> IF bmi_val # PyNone THEN bmi_val ELSE PyStr(s_empty)
               [] c = "tcenter" -> tcenter
               [] c = "note" -> PyStr(note)
               [] c \in numeric_cols -> PyFloat(0, 0)
               [] OTHER -> PyStr(s_empty)]
          : bmi_val \in {_bmi(height_cm, weight_kg)}})

\* the most records of the worksheet
MaxSheetRows == 2

\* the dates of the date input
PageDates == {Day1, Day2}
\* the numbers and texts typed into the form
HeightInputs == {PyFloat(0, 0), PyFloat(170, 0)}
WeightInputs == {PyFloat(0, 0), PyFloat(70, 0), PyFloat(655, 1)}
NoteInputs == {s_empty, <<"o", "k">>}

\* a new worksheet, or one that has its header
Init ==
    /\ arg = PyNone
    /\ df = EmptyDataFrame(PORTFOLIO_COLUMNS)
    /\ values \in {<< >>, <<PORTFOLIO_COLUMNS>>}
    /\ d = Day1
    /\ op = "input"
    /\ ret = PyNone
    /\ NoStore

\* the page is opened, or another date is chosen: the script runs
Render ==
    /\ HeaderOk(values)
    /\ \E dv \in PageDates :
          /\ d' = dv
          /\ values' = ensure_header(values)
          /\ ret' = render_portfolio_page(values', dv)
    /\ df' = ret'.df_all
    /\ op' = "render_portfolio_page"
    /\ UNCHANGED <<storeVars, arg>>

\* the save button: the row is appended and st.rerun() runs the script again
Save ==
    /\ op \in {"render_portfolio_page", "save"}
    /\ Len(values) - 1 < MaxSheetRows
    /\ \E height_cm \in HeightInputs, weight_kg \in WeightInputs,
          note \in NoteInputs, tcenter \in {PyTrue, PyFalse} :
          values' = append_row(values, FormRow(d, height_cm, weight_kg, note, tcenter))
    /\ ret' = render_portfolio_page(ensure_header(values'), d)
    /\ df' = ret'.df_all
    /\ op' = "save"
    /\ UNCHANGED <<storeVars, arg, d>>

Next ==
    \/ Render
    \/ Save

Spec == Init /\ [][Next]_vars

-----------------------------------------------------------------------------
(* SpecSheet: the methods of PortfolioStorage called on a worksheet whose   *)
(* header may carry a column outside PORTFOLIO_COLUMNS (the header that      *)
(* SheetsStorage.append_portfolio_row leaves after a row with an unknown     *)
(* key), with rows that may carry that key.  arg holds the rows handed to    *)
(* append_row so far, in the order of the calls.                             *)

\* a column outside PORTFOLIO_COLUMNS
UnknownColumn == "memo"

\* the header row after SheetsStorage.append_portfolio_row was given a row
\* with the unknown key: the old header with the key at its end
ExtendedHeader == Append(PORTFOLIO_COLUMNS, UnknownColumn)

\* ws.get_all_values(): every row filled with empty cells up to the width of
\* the widest row
get_all_values(cells) ==
    IF cells = << >> THEN << >>
    ELSE Only({[i \in DOMAIN cells |->
                  [k \in 1..w |-> IF k <= Len(cells[i]) THEN cells[i][k] ELSE s_empty]]
               : w \in {MaxOf({Len(cells[i]) : i \in DOMAIN cells})}})

\* the dict with one more key
WithKey(row, k, v) == [c \in DOMAIN row \cup {k} |-> IF c = k THEN v ELSE row[c]]

\* the rows handed to append_row: those the form builds, and the same with
\* the unknown key
SheetRowInputs ==
    Only({rows \cup {WithKey(r, UnknownColumn, PyStr(<<"x">>)) : r \in rows}
          : rows \in {{FormRow(Day1, PyFloat(0, 0), weight_kg, note, tcenter)
                       : weight_kg \in WeightInputs, note \in NoteInputs,
                         tcenter \in {PyTrue, PyFalse}}}})

\* a new worksheet, one with the header of PORTFOLIO_COLUMNS, or one with the
\* extended header
InitSheet ==
    /\ arg = << >>
    /\ df = EmptyDataFrame(PORTFOLIO_COLUMNS)
    /\ values \in {<< >>, <<PORTFOLIO_COLUMNS>>, <<ExtendedHeader>>}
    /\ d = Day1
    /\ op = "input"
    /\ ret = PyNone
    /\ NoStore

\* PortfolioStorage.ensure_header()
SheetEnsureHeader ==
    /\ values' = IF HeaderOk(values) THEN ensure_header(values) ELSE values
    /\ ret' = IF HeaderOk(values) THEN PyNone ELSE Raised
    /\ op' = "ensure_header"
    /\ UNCHANGED <<storeVars, arg, df, d>>

\* PortfolioStorage.append_row(row), on a worksheet that has its header row
SheetAppendRow ==
    /\ values # << >>
    /\ Len(values) - 1 < MaxSheetRows
    /\ \E row \in SheetRowInputs :
          /\ values' = get_all_values(append_row(values, row))
          /\ arg' = Append(arg, row)
    /\ ret' = PyNone
    /\ op' = "append_row"
    /\ UNCHANGED <<storeVars, df, d>>

\* PortfolioStorage.read_df()
SheetReadDf ==
    /\ df' = read_df(values)
    /\ ret' = df'
    /\ op' = "read_df"
    /\ UNCHANGED <<storeVars, arg, values, d>>

\* PortfolioStorage.get_latest_values()
SheetGetLatestValues ==
    /\ ret' = get_latest_values(values)
    /\ op' = "get_latest_values"
    /\ UNCHANGED <<storeVars, arg, df, values, d>>

NextSheet ==
    \/ SheetEnsureHeader
    \/ SheetAppendRow
    \/ SheetReadDf
    \/ SheetGetLatestValues

SpecSheet == InitSheet /\ [][NextSheet]_vars

-----------------------------------------------------------------------------
(* app.py: the record table, its worksheet and the local CSV file *)

RECORD_COLUMNS == <<"date", "weekday", "day", "item", "part", "done", "weight">>

s_DAILY == <<"D","A","I","L","Y">>
s_WEIGHT == <<"W","E","I","G","H","T">>
s_weight == <<"w","e","i","g","h","t">>
s_body == <<"b","o","d","y">>
s_t == <<"t">>

\* DAILY_REQUIRED and DAILY_OPTIONAL_BY_WEEKDAY: the names and parts of the
\* daily menu, in short Latin texts
s_ball_touch == <<"b","a","l","l">>
s_part_ball == <<"d","a","i","l","y","-","b","a","l","l">>
s_walk == <<"w","a","l","k">>
s_run == <<"r","u","n">>
s_part_recover == <<"d","a","i","l","y","-","r","e","c","o","v","e","r">>
s_part_stimulus == <<"d","a","i","l","y","-","s","t","i","m","u","l","u","s">>

\* WEEKDAY_KEYS[selected_date.weekday()] for the dates of the model:
\* 2024-02-01 is a Thursday
WeekdayKey(dv) ==
    IF dv.n = 20240201 THEN <<"t","h","u">>
    ELSE IF dv.n = 20240202 THEN <<"f","r","i">>
    ELSE <<"s","a","t">>

\* the rows of the daily form on the date dv: [name, part]
DailyRows(dv) ==
    <<[name |-> s_ball_touch, part |-> s_part_ball],
      IF dv.n = 20240201 THEN [name |-> s_walk, part |-> s_part_recover]
      ELSE [name |-> s_run, part |-> s_part_stimulus]>>

\* pd.to_datetime(x, errors="coerce") of a cell that may already be a Timestamp
ToTimestamp(v) == IF v.t = "ts" THEN v ELSE to_datetime(v)

\* pd.to_numeric(x, errors="coerce") of one cell of a float column
ToFloatCell(v) ==
    IF v.t = "str"
    THEN Only({IF f = Raised THEN PyNaN ELSE f : f \in {ParseFloat(v.s)}})
    ELSE IF v.t = "None" THEN PyNaN
    ELSE Float(v)

\* .dt.strftime("%Y-%m-%d") of a timestamp cell: NaN for NaT
StrfDate(t) == IF t.t = "ts" THEN PyStr(isoformat(PyDate(t.n))) ELSE PyNaN

\* app.normalize_record_df
normalize_record_df(f) ==
    IF DfEmpty(f) THEN EmptyDataFrame(RECORD_COLUMNS)
    ELSE [columns |-> RECORD_COLUMNS,
          rows |-> [i \in DOMAIN f.rows |->
                      [c \in Range(RECORD_COLUMNS) |->
                          IF c = "weight" THEN ToFloatCell(f.rows[i][c])
                          ELSE IF c = "date" THEN ToTimestamp(f.rows[i][c])
                          ELSE f.rows[i][c]]]]

\* app._sheet_to_df for a worksheet whose header is RECORD_COLUMNS
_sheet_to_df(vals) ==
    IF vals = << >> THEN EmptyDataFrame(RECORD_COLUMNS)
    ELSE Only({normalize_record_df(
                 [columns |-> RECORD_COLUMNS,
                  rows |-> [i \in 1..(Len(vals) - 1) |->
                              [c \in Range(RECORD_COLUMNS) |->
                                  Only({IF c = "done"
                                        THEN PyBool(Lower(cell) \in
                                                 {s_true, s_1, s_yes, s_y, s_t})
                                        ELSE IF c = "weight" THEN weights[i]
                                        ELSE IF c = "date" THEN to_datetime(PyStr(cell))
                                        ELSE PyStr(cell)
                                        : cell \in {vals[i + 1][IndexOf(RECORD_COLUMNS, c)]}})]]])
               : weights \in {to_numeric([i \in 1..(Len(vals) - 1) |-> vals[i + 1][7]])}})

\* out[c].astype(str) of one cell of _df_to_sheet's table: the date through
\* strftime, done through fillna(False).astype(bool)
RecordCellText(c, v) ==
    IF c = "date" THEN Str(StrfDate(v))
    ELSE IF c = "done" THEN Str(PyBool(~IsNa(v) /\ v # PyFalse /\ v # PyStr(s_empty)))
    ELSE Str(v)

\* the cells _df_to_sheet sends for the table f: the header, then the rows
RecordSheetValues(f) ==
    Only({<<RECORD_COLUMNS>> \o
            [i \in DOMAIN g.rows |->
                [k \in DOMAIN RECORD_COLUMNS |->
                    RecordCellText(RECORD_COLUMNS[k], g.rows[i][RECORD_COLUMNS[k]])]]
          : g \in {normalize_record_df(f)}})

\* a variant of the mask that leaves the date out: the first row of the day
\* day_key and the item name, whatever its date
UpsertIndexAnyDate(f, dv, day_key, name) ==
    Only({IF hits = {} THEN 0 ELSE MinOf(hits)
          : hits \in {{i \in DOMAIN f.rows :
                         /\ f.rows[i]["day"] = PyStr(day_key)
                         /\ f.rows[i]["item"] = PyStr(name)}}})

\* the row of f that upsert_done_row / upsert_weight update: the first row
\* of the date dv, the day day_key and the item name (0 if there is none)
UpsertIndex(f, dv, day_key, name) ==
    Only({IF hits = {} THEN 0 ELSE MinOf(hits)
          : hits \in {{i \in DOMAIN f.rows :
                         /\ StrfDate(f.rows[i]["date"]) = PyStr(isoformat(dv))
                         /\ f.rows[i]["day"] = PyStr(day_key)
                         /\ f.rows[i]["item"] = PyStr(name)}}})

\* the record the upserts write
RecordRow(dv, weekday_key, day_key, name, part, done, weight) ==
    [c \in Range(RECORD_COLUMNS) |->
        CASE c = "date" -> PyStr(isoformat(dv))
          [] c = "weekday" -> PyStr(weekday_key)
          [] c = "day" -> PyStr(day_key)
          [] c = "item" -> PyStr(name)
          [] c = "part" -> PyStr(part)
          [] c = "done" -> done
          [] c = "weight" -> weight]

\* the upsert of a record: the matching row is overwritten where it stands
\* (keep: the columns the update leaves as they are), a record without a
\* matching row is appended
Upsert(f, idx, row, keep) ==
    normalize_record_df(
        [columns |-> RECORD_COLUMNS,
         rows |-> IF idx = 0 THEN Append(f.rows, row)
                  ELSE [f.rows EXCEPT ![idx] =
                           [c \in Range(RECORD_COLUMNS) |->
                               IF c \in keep THEN f.rows[idx][c] ELSE row[c]]]])

\* app.upsert_done_row
upsert_done_row(f, dv, weekday_key, day_key, name, part, done) ==
    Only({Upsert(g, UpsertIndex(g, dv, day_key, name),
                 RecordRow(dv, weekday_key, day_key, name, part, PyBool(done), PyNone),
                 {"weight"})
          : g \in {normalize_record_df(f)}})

\* app.upsert_weight
upsert_weight(f, dv, weekday_key, weight_val) ==
    Only({Upsert(g, UpsertIndex(g, dv, s_WEIGHT, s_weight),
                 RecordRow(dv, weekday_key, s_WEIGHT, s_weight, s_body, PyTrue,
                           Float(weight_val)),
                 {})
          : g \in {normalize_record_df(f)}})

\* the daily form submitted with the flags done (one per row of the form):
\* upsert_done_row for every row of the form
UpsertDaily(f, dv, done) ==
    Only({upsert_done_row(f1, dv, WeekdayKey(dv), s_DAILY,
                          DailyRows(dv)[2].name, DailyRows(dv)[2].part, done[2])
          : f1 \in {upsert_done_row(f, dv, WeekdayKey(dv), s_DAILY,
                                    DailyRows(dv)[1].name, DailyRows(dv)[1].part, done[1])}})

\* out.to_csv(DATA_PATH, index=False) in save_data_local: the header, then
\* the rows, a missing value as an empty field
RecordCsvRows(f) ==
    Only({<<RECORD_COLUMNS>> \o
            [i \in DOMAIN g.rows |->
                [k \in DOMAIN RECORD_COLUMNS |->
                    Only({IF IsNa(v) THEN s_empty ELSE Str(v)
                          : v \in {IF RECORD_COLUMNS[k] = "date"
                                   THEN StrfDate(g.rows[i]["date"])
                                   ELSE g.rows[i][RECORD_COLUMNS[k]]}})]]
          : g \in {normalize_record_df(f)}})

\* app.ensure_data_local: the file afterwards
ensure_data_local(file) == IF file = << >> THEN <<RECORD_COLUMNS>> ELSE file

\* app.load_data_local of a file that exists: read_csv, then normalize_record_df
load_data_local(file) ==
    normalize_record_df(
        [columns |-> RECORD_COLUMNS,
         rows |-> [i \in 1..(Len(file) - 1) |->
                     [c \in Range(RECORD_COLUMNS) |->
                         Only({IF cell = s_empty THEN PyNaN
                               ELSE IF c = "done" THEN PyBool(cell = Str(PyTrue))
                               ELSE IF c = "weight" THEN ToFloatCell(PyStr(cell))
                               ELSE PyStr(cell)
                               : cell \in {file[i + 1][IndexOf(RECORD_COLUMNS, c)]}})]]])

-----------------------------------------------------------------------------
(* storage.py: the portfolio CSV file of CSVStorage *)

\* the portfolio CSV file of CSVStorage after append_portfolio_row has
\* written the records rows to a new file: to_csv writes str(v), and nothing
\* for an empty text
PortfolioCsvRows(rows) ==
    <<PORTFOLIO_COLUMNS>> \o
        [i \in DOMAIN rows |->
            [k \in DOMAIN PORTFOLIO_COLUMNS |->
                Only({IF v = PyStr(s_empty) \/ IsNa(v) THEN s_empty ELSE Str(v)
                      : v \in {rows[i][PORTFOLIO_COLUMNS[k]]}})]]

\* pd.read_csv of one column of fields: an empty field is NaN; a column of
\* numbers is int64 or float64, one of True / False is bool, any other holds
\* its texts
ReadCsvColumn(col) ==
    IF \A i \in DOMAIN col : col[i] = s_empty \/ ParseFloat(col[i]) # Raised
    THEN (IF \A i \in DOMAIN col : IsIntText(col[i])
          THEN [i \in DOMAIN col |-> PyInt(ParseFloat(col[i]).n)]
          ELSE [i \in DOMAIN col |->
                  IF col[i] = s_empty THEN PyNaN ELSE ParseFloat(col[i])])
    ELSE IF \A i \in DOMAIN col : col[i] \in {Str(PyTrue), Str(PyFalse)}
    THEN [i \in DOMAIN col |-> PyBool(col[i] = Str(PyTrue))]
    ELSE [i \in DOMAIN col |-> IF col[i] = s_empty THEN PyNaN ELSE PyStr(col[i])]

\* the columns CSVStorage.load_all_portfolio puts through pd.to_numeric
num_cols == numeric_cols \ {"bmi"}

\* CSVStorage.load_all_portfolio: file is the CSV file (<< >>: there is none),
\* readable tells whether pd.read_csv can read it; a file that cannot be
\* read gives the empty table
load_all_portfolio(file, readable) ==
    IF file = << >> \/ ~readable THEN EmptyDataFrame(PORTFOLIO_COLUMNS)
    ELSE Only({[columns |-> PORTFOLIO_COLUMNS,
                rows |-> [i \in 1..(Len(file) - 1) |->
                            [c \in PortfolioColumnSet |->
                                IF c \in num_cols THEN ToFloatCell(cols[c][i])
                                ELSE cols[c][i]]]]
               : cols \in {[c \in PortfolioColumnSet |->
                              ReadCsvColumn([i \in 1..(Len(file) - 1) |->
                                               file[i + 1][ColIndex(c)]])]}})

-----------------------------------------------------------------------------
(* SpecStore: the handlers that write a store, call by call.  A run is about
   one script or page: app.py with its Storage, render_daily with a
   SheetsStorage, or render_portfolio_page with its PortfolioStorage; values
   is the worksheet that page writes.  Each call of the worksheet API is a
   step of its own, and each may raise. *)

\* the most records of the local CSV file at which a connection still fails
MaxCsvRows == 1
\* the most records of the log worksheet at which render_daily is submitted
MaxLogRows == 2

\* the flags ticked on the daily form, one per row of the form
DoneInputs == {<<TRUE, FALSE>>, <<FALSE, FALSE>>}
\* the dates chosen in app.py
AppDates == {Day1}
\* the weights typed into app.py's weight input
AppWeightInputs == {PyFloat(55, 0), PyFloat(605, 1)}

\* the records of the portfolio CSV file
ReportRecords ==
    {FormRow(dv, PyFloat(170, 0), weight_kg, s_empty, tcenter) :
        dv \in PageDates, weight_kg \in WeightInputs, tcenter \in {PyTrue, PyFalse}}

\* what the pages show
msg_sheets_ok == "Google Sheets OK"
msg_csv_fallback == "Google Sheets NG (CSV fallback)"
msg_saved == "saved"
msg_exception == "exception"

\* the portfolio CSV files render_report may find: none, one with its header
\* alone, and the files holding one or two of the records of the form
ReportFiles ==
    {<< >>, <<PORTFOLIO_COLUMNS>>}
        \cup {PortfolioCsvRows(rows) :
                 rows \in UNION {[1..n -> ReportRecords] : n \in 1..2}}

InitStore ==
    /\ arg = << >>
    /\ df = EmptyDataFrame(RECORD_COLUMNS)
    /\ page \in {"app.py", "render_daily", "render_portfolio_page", "render_report"}
    /\ values \in CASE page = "app.py" -> {<<RECORD_COLUMNS>>}
                    [] page = "render_daily" -> {<< >>, <<RECORD_COLUMNS>>}
                    [] OTHER -> {<<PORTFOLIO_COLUMNS>>}
    /\ d = Day1
    /\ op = "input"
    /\ ret = PyNone
    /\ mode = "CSV"
    /\ csv \in IF page = "render_report" THEN ReportFiles ELSE {<< >>}
    /\ pc = IF page = "app.py" THEN "run" ELSE "form"
    /\ prior = values
    /\ shown = {}

\* app.py from its top to its forms: storage.connect(), which falls back to
\* the CSV file when the worksheet cannot be opened, df = storage.load(),
\* and the sidebar that tells which store is in use
AppRun ==
    /\ page = "app.py"
    /\ pc = "run"
    /\ \E ok \in BOOLEAN :
          /\ ~ok => Len(csv) - 1 < MaxCsvRows
          /\ mode' = IF ok THEN "SHEETS" ELSE "CSV"
          /\ csv' = IF ok THEN csv ELSE ensure_data_local(csv)
          /\ df' = IF ok THEN _sheet_to_df(values) ELSE load_data_local(csv')
          /\ shown' = {IF ok THEN msg_sheets_ok ELSE msg_csv_fallback}
    /\ pc' = "form"
    /\ op' = "storage.load"
    /\ UNCHANGED <<arg, values, d, ret, page, prior>>

\* storage.save(df) up to its first call of the worksheet: in CSV mode
\* save_data_local and the success message, in SHEETS mode _df_to_sheet
\* is about to call ws.clear()
StorageSave(f) ==
    /\ df' = f
    /\ prior' = values
    /\ IF mode = "SHEETS"
       THEN /\ pc' = "ws.clear"
            /\ UNCHANGED <<csv, shown>>
       ELSE /\ csv' = RecordCsvRows(f)
            /\ shown' = shown \cup {msg_saved}
            /\ pc' = "run"

\* the daily form of app.py is submitted
AppSubmitDaily ==
    /\ page = "app.py"
    /\ pc = "form"
    /\ \E dv \in AppDates, done \in DoneInputs :
          /\ d' = dv
          /\ StorageSave(UpsertDaily(df, dv, done))
    /\ op' = "upsert_done_row"
    /\ ret' = PyNone
    /\ UNCHANGED <<arg, values, page, mode>>

\* the weight button of app.py is pressed
AppSaveWeight ==
    /\ page = "app.py"
    /\ pc = "form"
    /\ \E dv \in AppDates, weight \in AppWeightInputs :
          /\ d' = dv
          /\ StorageSave(upsert_weight(df, dv, WeekdayKey(dv), weight))
    /\ op' = "upsert_weight"
    /\ ret' = PyNone
    /\ UNCHANGED <<arg, values, page, mode>>

\* ws.clear() in _df_to_sheet
WsClear ==
    /\ pc = "ws.clear"
    /\ values' = << >>
    /\ pc' = "ws.update"
    /\ op' = "ws.clear"
    /\ UNCHANGED <<arg, df, d, ret, page, mode, csv, prior, shown>>

\* ws.clear() raises: the exception leaves the script, which stops there and
\* shows it
WsClearRaises ==
    /\ pc = "ws.clear"
    /\ shown' = shown \cup {msg_exception}
    /\ pc' = "run"
    /\ op' = "raise"
    /\ ret' = Raised
    /\ UNCHANGED <<arg, df, values, d, page, mode, csv, prior>>

\* ws.update(values) in _df_to_sheet, then the success message of the form
WsUpdate ==
    /\ pc = "ws.update"
    /\ values' = RecordSheetValues(df)
    /\ shown' = shown \cup {msg_saved}
    /\ pc' = "run"
    /\ op' = "ws.update"
    /\ ret' = PyNone
    /\ UNCHANGED <<arg, df, d, page, mode, csv, prior>>

\* ws.update(values) raises after the sheet was cleared, the error being
\* caught and the table written to the CSV file instead
WsUpdateFallsBack ==
    /\ pc = "ws.update"
    /\ csv' = RecordCsvRows(df)
    /\ shown' = shown \cup {msg_saved}
    /\ pc' = "run"
    /\ op' = "raise"
    /\ ret' = Raised
    /\ UNCHANGED <<arg, df, values, d, page, mode, prior>>

\* ws.update(values) raises: the exception leaves the script
WsUpdateRaises ==
    /\ pc = "ws.update"
    /\ shown' = shown \cup {msg_exception}
    /\ pc' = "run"
    /\ op' = "raise"
    /\ ret' = Raised
    /\ UNCHANGED <<arg, df, values, d, page, mode, csv, prior>>

\* the rows render_daily hands to append_records: one for every ticked row
\* of the form
DailyRecords(dv, done) ==
    Only({[p \in 1..Cardinality(ticked) |->
             Only({RecordRow(dv, WeekdayKey(dv), s_DAILY, DailyRows(dv)[k].name,
                             DailyRows(dv)[k].part, PyTrue, PyStr(s_empty))
                   : k \in {CHOOSE k \in ticked :
                              Cardinality({j \in ticked : j < k}) = p - 1}})]
          : ticked \in {{k \in DOMAIN done : done[k]}}})

\* the cells ws.append_rows(values, value_input_option="USER_ENTERED") adds
\* for the rows of SheetsStorage.append_records
LogSheetRows(rows) ==
    [p \in DOMAIN rows |->
        [k \in DOMAIN RECORD_COLUMNS |-> SheetText(rows[p][RECORD_COLUMNS[k]])]]

\* render_daily: the form is submitted, storage.append_records(rows) reads
\* the header row and is about to write; with no row ticked it returns at
\* once and the success message is shown
DailySubmit ==
    /\ page = "render_daily"
    /\ pc = "form"
    /\ Len(values) - 1 < MaxLogRows
    /\ \E dv \in PageDates, done \in DoneInputs :
          /\ d' = dv
          /\ arg' = DailyRecords(dv, done)
    /\ prior' = values
    /\ IF arg' = << >>
       THEN pc' = "form" /\ shown' = {msg_saved}
       ELSE pc' = (IF values = << >> THEN "ws.append_row" ELSE "ws.append_rows")
            /\ shown' = {}
    /\ op' = "append_records"
    /\ ret' = PyNone
    /\ UNCHANGED <<df, values, page, mode, csv>>

\* render_daily: the worksheet cannot be opened or its header row not read
DailySubmitRaises ==
    /\ page = "render_daily"
    /\ pc = "form"
    /\ \E dv \in PageDates :
          /\ d' = dv
          /\ arg' = DailyRecords(dv, <<TRUE, FALSE>>)
    /\ prior' = values
    /\ shown' = {msg_exception}
    /\ op' = "raise"
    /\ ret' = Raised
    /\ UNCHANGED <<df, values, page, mode, csv, pc>>

\* ws.append_row(RECORD_COLUMNS) in append_records, the sheet having no header
AppendHeader ==
    /\ pc = "ws.append_row"
    /\ values' = <<RECORD_COLUMNS>>
    /\ pc' = "ws.append_rows"
    /\ op' = "ws.append_row"
    /\ UNCHANGED <<arg, df, d, ret, page, mode, csv, prior, shown>>

AppendHeaderRaises ==
    /\ pc = "ws.append_row"
    /\ shown' = shown \cup {msg_exception}
    /\ pc' = "form"
    /\ op' = "raise"
    /\ ret' = Raised
    /\ UNCHANGED <<arg, df, values, d, page, mode, csv, prior>>

\* ws.append_rows(values) in append_records, then the success message
AppendRows ==
    /\ pc = "ws.append_rows"
    /\ values' = values \o LogSheetRows(arg)
    /\ shown' = shown \cup {msg_saved}
    /\ pc' = "form"
    /\ op' = "ws.append_rows"
    /\ UNCHANGED <<arg, df, d, ret, page, mode, csv, prior>>

AppendRowsRaises ==
    /\ pc = "ws.append_rows"
    /\ shown' = shown \cup {msg_exception}
    /\ pc' = "form"
    /\ op' = "raise"
    /\ ret' = Raised
    /\ UNCHANGED <<arg, df, values, d, page, mode, csv, prior>>

\* render_portfolio_page: the save button, portfolio_storage.append_row(row)
\* and the success message
PortfolioSave ==
    /\ page = "render_portfolio_page"
    /\ pc = "form"
    /\ Len(values) - 1 < MaxSheetRows
    /\ \E dv \in PageDates, weight_kg \in WeightInputs :
          /\ d' = dv
          /\ values' = append_row(values, FormRow(dv, PyFloat(170, 0), weight_kg,
                                                  s_empty, PyFalse))
    /\ prior' = values
    /\ shown' = {msg_saved}
    /\ op' = "append_row"
    /\ ret' = PyNone
    /\ UNCHANGED <<arg, df, page, mode, csv, pc>>

\* render_portfolio_page: append_row raises
PortfolioSaveRaises ==
    /\ page = "render_portfolio_page"
    /\ pc = "form"
    /\ \E dv \in PageDates : d' = dv
    /\ prior' = values
    /\ shown' = {msg_exception}
    /\ op' = "raise"
    /\ ret' = Raised
    /\ UNCHANGED <<arg, df, values, page, mode, csv, pc>>

msg_no_data == "no portfolio data in the period"
msg_charts == "charts"

\* render_report down to its first branch: storage.load_all_portfolio()
\* inside try / except, build_report_data, and the warning shown when no
\* record of the table lies in the period chosen (in_period: one does)
ReportLoad ==
    /\ page = "render_report"
    /\ pc = "form"
    /\ \E readable \in BOOLEAN, in_period \in BOOLEAN :
          /\ ret' = load_all_portfolio(csv, readable)
          /\ df' = IF ret' = Raised THEN EmptyDataFrame(<< >>) ELSE ret'
          /\ op' = IF readable THEN "load_all_portfolio" ELSE "read_csv raised"
          /\ shown' = IF DfEmpty(df') \/ ~in_period THEN {msg_no_data} ELSE {msg_charts}
    /\ UNCHANGED <<arg, values, d, page, mode, csv, pc, prior>>

NextStore ==
    \/ AppRun
    \/ AppSubmitDaily
    \/ AppSaveWeight
    \/ WsClear
    \/ WsClearRaises
    \/ WsUpdate
    \/ WsUpdateRaises
    \/ DailySubmit
    \/ DailySubmitRaises
    \/ AppendHeader
    \/ AppendHeaderRaises
    \/ AppendRows
    \/ AppendRowsRaises
    \/ PortfolioSave
    \/ PortfolioSaveRaises
    \/ ReportLoad

SpecStore == InitStore /\ [][NextStore]_vars

-----------------------------------------------------------------------------
(* SpecUpsert: upsert_done_row and upsert_weight of app.py called one after
   the other on a training log.  df is the log the last call returned, prior
   the log it was handed, arg the arguments of the call. *)

\* the most rows of the log at which a record of a new key is still added
MaxUpsertRows == 3

\* the dates of the calls
UpsertDates == {Day1, Day2}
\* the rows of the forms: day_key, name and part of upsert_done_row
UpsertItems ==
    {[day_key |-> s_DAILY, name |-> s_ball_touch, part |-> s_part_ball],
     [day_key |-> s_WEIGHT, name |-> s_weight, part |-> s_body]}

\* the rows a log worksheet may hold before the first call: a record of the
\* daily form, one with a date that is no date, and a weight
UpsertSheetRows ==
    {<<isoformat(Day1), WeekdayKey(Day1), s_DAILY, s_ball_touch, s_part_ball,
       Str(PyTrue), s_empty>>,
     <<<<"b","a","d">>, WeekdayKey(Day1), s_DAILY, s_ball_touch, s_part_ball,
       Str(PyFalse), s_empty>>,
     <<isoformat(Day2), WeekdayKey(Day2), s_WEIGHT, s_weight, s_body,
       Str(PyTrue), Str(PyFloat(55, 0))>>}

\* the logs load_data returns before the first call
UpsertStartLogs ==
    {_sheet_to_df(<<RECORD_COLUMNS>>)}
        \cup {_sheet_to_df(<<RECORD_COLUMNS, r>>) : r \in UpsertSheetRows}

InitUpsert ==
    /\ df \in UpsertStartLogs
    /\ prior = df
    /\ arg = << >>
    /\ values = << >>
    /\ d = Day1
    /\ op = "load_data"
    /\ ret = PyNone
    /\ page = "app.py"
    /\ mode = "SHEETS"
    /\ csv = << >>
    /\ pc = "form"
    /\ shown = {}

\* df = upsert_done_row(df, d, weekday_key, day_key, name, part, done)
CallUpsertDoneRow ==
    /\ \E dv \in UpsertDates, it \in UpsertItems, done \in BOOLEAN :
          /\ \/ NRows(df) < MaxUpsertRows
             \/ UpsertIndex(normalize_record_df(df), dv, it.day_key, it.name) # 0
          /\ arg' = [dv |-> dv, day_key |-> it.day_key, name |-> it.name]
          /\ df' = upsert_done_row(df, dv, WeekdayKey(dv), it.day_key, it.name,
                                   it.part, done)
          /\ d' = dv
    /\ prior' = df
    /\ op' = "upsert_done_row"
    /\ UNCHANGED <<values, ret, page, mode, csv, pc, shown>>

\* df = upsert_weight(df, d, weekday_key, weight_val)
CallUpsertWeight ==
    /\ \E dv \in UpsertDates, weight \in AppWeightInputs :
          /\ \/ NRows(df) < MaxUpsertRows
             \/ UpsertIndex(normalize_record_df(df), dv, s_WEIGHT, s_weight) # 0
          /\ arg' = [dv |-> dv, day_key |-> s_WEIGHT, name |-> s_weight]
          /\ df' = upsert_weight(df, dv, WeekdayKey(dv), weight)
          /\ d' = dv
    /\ prior' = df
    /\ op' = "upsert_weight"
    /\ UNCHANGED <<values, ret, page, mode, csv, pc, shown>>

NextUpsert ==
    \/ CallUpsertDoneRow
    \/ CallUpsertWeight

SpecUpsert == InitUpsert /\ [][NextUpsert]_vars

-----------------------------------------------------------------------------
(* SpecSessions: two sessions of the application save one record each to
   the same store.  No save takes a lock, so the calls that read and write
   the store are steps of their own and the steps of the two sessions
   interleave.  page is the save both sessions run; csv is the CSV file and
   values the worksheet; pc, prior and arg hold, for each session, its
   position, the table it has read and the record it saves. *)

Sessions == {1, 2}

\* the date chosen in each session
SessionDate(sid) == IF sid = 1 THEN Day1 ELSE Day2

\* the columns of the file a save of CSVStorage writes
CsvColumns(flow) ==
    IF flow = "append_portfolio_row" THEN PORTFOLIO_COLUMNS ELSE RECORD_COLUMNS

\* pd.read_csv(path): the rows of the file, column by column
read_csv(cols, file) ==
    Only({[i \in 1..(Len(file) - 1) |-> [c \in Range(cols) |-> read[c][i]]]
          : read \in {[c \in Range(cols) |->
                         ReadCsvColumn([i \in 1..(Len(file) - 1) |->
                                          file[i + 1][IndexOf(cols, c)]])]}})

\* df.to_csv(path, index=False): the header, then str(v) of every value, and
\* nothing for a missing value or an empty text
to_csv(cols, rows) ==
    <<cols>> \o
        [i \in DOMAIN rows |->
            [k \in DOMAIN cols |->
                Only({IF v = PyStr(s_empty) \/ IsNa(v) THEN s_empty ELSE Str(v)
                      : v \in {rows[i][cols[k]]}})]]

\* what each session saves: the row of the portfolio form, the ticked row of
\* the daily form, or the weight typed into app.py
SessionInputs(flow, sid) ==
    CASE flow = "append_portfolio_row" ->
            {<<FormRow(SessionDate(sid), PyFloat(170, 0), weight_kg, s_empty, PyTrue)>>
                : weight_kg \in {PyFloat(70, 0), PyFloat(655, 1)}}
      [] flow = "append_records" ->
            {DailyRecords(SessionDate(sid), done) : done \in {<<TRUE, FALSE>>, <<FALSE, TRUE>>}}
      [] OTHER -> AppWeightInputs

\* the store before the saves: no file, a file or a worksheet with its
\* header alone, or one with a record of another day
SessionFiles(flow) ==
    {<< >>, <<CsvColumns(flow)>>,
     to_csv(CsvColumns(flow),
            IF flow = "append_portfolio_row"
            THEN <<FormRow(Day3, PyFloat(170, 0), PyFloat(70, 0), s_empty, PyFalse)>>
            ELSE DailyRecords(Day3, <<TRUE, FALSE>>))}
SessionSheets ==
    {<<RECORD_COLUMNS>>,
     RecordSheetValues(upsert_weight(EmptyDataFrame(RECORD_COLUMNS), Day3,
                                     WeekdayKey(Day3), PyFloat(55, 0)))}

InitSessions ==
    /\ page \in {"append_portfolio_row", "append_records", "app.py"}
    /\ mode = IF page = "app.py" THEN "SHEETS" ELSE "CSV"
    /\ csv \in IF page = "app.py" THEN {<< >>} ELSE SessionFiles(page)
    /\ values \in IF page = "app.py" THEN SessionSheets ELSE {<< >>}
    /\ arg \in [Sessions -> SessionInputs(page, 1) \cup SessionInputs(page, 2)]
    /\ \A sid \in Sessions : arg[sid] \in SessionInputs(page, sid)
    /\ prior = [sid \in Sessions |-> << >>]
    /\ pc = [sid \in Sessions |-> IF page = "app.py" THEN "storage.load" ELSE "read_csv"]
    /\ df = EmptyDataFrame(RECORD_COLUMNS)
    /\ d = Day1
    /\ op = "input"
    /\ ret = PyNone
    /\ shown = {}

\* CSVStorage.append_portfolio_row / append_records up to the concat: the
\* file, if there is one, is read
SessionReadCsv(sid) ==
    /\ page # "app.py"
    /\ pc[sid] = "read_csv"
    /\ prior' = [prior EXCEPT ![sid] = csv]
    /\ pc' = [pc EXCEPT ![sid] = "to_csv"]
    /\ op' = "read_csv"
    /\ UNCHANGED <<arg, df, values, d, ret, page, mode, csv, shown>>

\* the rest of the append: the rows read and the new rows are written over
\* the file
SessionToCsv(sid) ==
    /\ pc[sid] = "to_csv"
    /\ csv' = to_csv(CsvColumns(page),
                     IF prior[sid] = << >> THEN arg[sid]
                     ELSE read_csv(CsvColumns(page), prior[sid]) \o arg[sid])
    /\ pc' = [pc EXCEPT ![sid] = "done"]
    /\ op' = "to_csv"
    /\ UNCHANGED <<arg, df, values, d, ret, page, mode, prior, shown>>

\* app.py runs for the session: df = storage.load()
SessionLoad(sid) ==
    /\ page = "app.py"
    /\ pc[sid] = "storage.load"
    /\ prior' = [prior EXCEPT ![sid] = _sheet_to_df(values)]
    /\ pc' = [pc EXCEPT ![sid] = "ws.clear"]
    /\ op' = "storage.load"
    /\ UNCHANGED <<arg, df, values, d, ret, page, mode, csv, shown>>

\* the weight is saved: upsert_weight on the table of the session, then
\* storage.save(df) up to ws.clear() in _df_to_sheet
SessionWsClear(sid) ==
    /\ pc[sid] = "ws.clear"
    /\ prior' = [prior EXCEPT ![sid] =
                    upsert_weight(prior[sid], SessionDate(sid),
                                  WeekdayKey(SessionDate(sid)), arg[sid])]
    /\ values' = << >>
    /\ pc' = [pc EXCEPT ![sid] = "ws.update"]
    /\ op' = "ws.clear"
    /\ UNCHANGED <<arg, df, d, ret, page, mode, csv, shown>>

\* ws.update(values) in _df_to_sheet: the table of the session is written
SessionWsUpdate(sid) ==
    /\ pc[sid] = "ws.update"
    /\ values' = RecordSheetValues(prior[sid])
    /\ pc' = [pc EXCEPT ![sid] = "done"]
    /\ op' = "ws.update"
    /\ UNCHANGED <<arg, df, d, ret, page, mode, csv, prior, shown>>

NextSessions ==
    \E sid \in Sessions :
        \/ SessionReadCsv(sid)
        \/ SessionToCsv(sid)
        \/ SessionLoad(sid)
        \/ SessionWsClear(sid)
        \/ SessionWsUpdate(sid)

SpecSessions == InitSessions /\ [][NextSessions]_vars

-----------------------------------------------------------------------------
(* ui_daily.py: _calc_streak_days_from_latest_training *)

\* the days of the years before year y, and of the months of y before month m
DaysBeforeYear(y) == 365 * (y - 1) + ((y - 1) \div 4) - ((y - 1) \div 100) + ((y - 1) \div 400)
DaysBeforeMonth(y, m) ==
    <<0, 31, 59, 90, 120, 151, 181, 212, 243, 273, 304, 334, 365>>[m]
        + (IF m > 2 /\ DaysInMonth(y, 2) = 29 THEN 1 ELSE 0)

\* date.toordinal()
toordinal(dv) ==
    DaysBeforeYear(dv.n \div 10000) + DaysBeforeMonth(dv.n \div 10000, (dv.n \div 100) % 100)
        + (dv.n % 100)

\* the years of the modelled dates
Years == {2023, 2024}

\* date.fromordinal(k)
fromordinal(k) ==
    Only({Only({PyDate(10000 * y + 100 * m + (k - DaysBeforeYear(y) - DaysBeforeMonth(y, m)))
                : m \in {i \in 1..12 : /\ DaysBeforeMonth(y, i) < k - DaysBeforeYear(y)
                                       /\ k - DaysBeforeYear(y) <= DaysBeforeMonth(y, i + 1)}})
          : y \in {i \in Years : DaysBeforeYear(i) < k /\ k <= DaysBeforeYear(i + 1)}})

\* the test of the done column: astype(str).str.lower().isin([...])
StreakDone(v) == Lower(Str(v)) \in {s_true, s_1, s_yes, s_y}

\* the rows the function keeps, with the WEIGHT rows among them
TrainingDaysWithWeight(f) ==
    {PyDate(to_datetime(f.rows[i]["date"]).n) :
        i \in {j \in DOMAIN f.rows : /\ to_datetime(f.rows[j]["date"]) # NaT
                                     /\ StreakDone(f.rows[j]["done"])}}

\* day_set: the dates of the rows with a date that parses, done true and a
\* day other than WEIGHT
TrainingDays(f) ==
    {PyDate(to_datetime(f.rows[i]["date"]).n) :
        i \in {j \in DOMAIN f.rows : /\ to_datetime(f.rows[j]["date"]) # NaT
                                     /\ StreakDone(f.rows[j]["done"])
                                     /\ f.rows[j]["day"] # PyStr(s_WEIGHT)}}

\* days[-1]: the latest of a set of dates
LatestDay(days) == CHOOSE x \in days : \A y \in days : y.n <= x.n

(* SpecStreak: the function run on a log; df is what load_all_records gives *)
(* (Raised if it raises), d is cur, ret is streak, pc the place in the code  *)

\* the most rows of the log
MaxStreakRows == 3

\* the cells of the log: three days in a row over the end of February of a
\* leap year, a day after a gap, and a text that is no date; done as the CSV
\* file gives it (a bool) and as the worksheet gives it (a text)
StreakDateCells ==
    {PyStr(isoformat(PyDate(n))) : n \in {20240228, 20240229, 20240301, 20240303}}
        \cup {PyStr(<<"b","a","d">>)}
StreakDayCells == {PyStr(s_DAILY), PyStr(s_WEIGHT)}
StreakDoneCells == {PyTrue, PyStr(s_FALSE)}

StreakRowInputs ==
    {[date |-> dt, day |-> dy, done |-> dn] :
        dt \in StreakDateCells, dy \in StreakDayCells, dn \in StreakDoneCells}

StreakTables ==
    {[columns |-> <<"date", "day", "done">>, rows |-> r] :
        r \in UNION {[1..n -> StreakRowInputs] : n \in 0..MaxStreakRows}}

\* a log, a log without its done column, or a load that raises
InitStreak ==
    /\ arg = PyNone
    /\ df \in StreakTables
               \cup {[columns |-> <<"date", "day">>,
                      rows |-> <<[date |-> PyStr(isoformat(Day1)), day |-> PyStr(s_DAILY)]>>],
                     Raised}
    /\ values = << >>
    /\ d = Day1
    /\ op = "input"
    /\ ret = PyNone
    /\ page = "render_daily"
    /\ mode = "SHEETS"
    /\ csv = << >>
    /\ pc = "load_all_records"
    /\ prior = << >>
    /\ shown = {}

\* from the load to the start of the loop: 0 is returned for a load that
\* raised, an empty log, a missing column and a log without training day
StreakLoad ==
    /\ page = "render_daily"
    /\ pc = "load_all_records"
    /\ IF HasRaised(df) THEN ret' = PyInt(0) /\ pc' = "return" /\ d' = d
       ELSE IF DfEmpty(df) \/ ~({"date", "day", "done"} \subseteq Range(df.columns))
       THEN ret' = PyInt(0) /\ pc' = "return" /\ d' = d
       ELSE \E days \in {TrainingDays(df)} :
               IF days = {} THEN ret' = PyInt(0) /\ pc' = "return" /\ d' = d
               ELSE ret' = PyInt(1) /\ pc' = "while" /\ d' = LatestDay(days)
    /\ op' = "_calc_streak_days_from_latest_training"
    /\ UNCHANGED <<arg, df, values, page, mode, csv, prior, shown>>

\* one pass of the loop: the day before cur is a training day, or the loop
\* is left
StreakScan ==
    /\ page = "render_daily"
    /\ pc = "while"
    /\ \E prev \in {fromordinal(toordinal(d) - 1)} :
          IF prev \in TrainingDays(df)
          THEN ret' = PyInt(ret.n + 1) /\ d' = prev /\ pc' = "while"
          ELSE ret' = ret /\ d' = d /\ pc' = "return"
    /\ UNCHANGED <<arg, df, values, op, page, mode, csv, prior, shown>>

NextStreak ==
    \/ StreakLoad
    \/ StreakScan

\* the function runs on: a pass of the loop that can be taken is taken
SpecStreak == InitStreak /\ [][NextStreak]_vars /\ WF_vars(NextStreak)

-----------------------------------------------------------------------------
(* roadmap_storage.py, roadmap_logic.py, report_logic.py: the roadmap row of *)
(* a month.  A roadmap table is [columns, rows, index]: index holds the      *)
(* labels of the rows (their places in the loaded table); of its columns     *)
(* start_ym and end_ym are modelled.                                         *)

\* s.replace("/", "-").replace(".", "-")
DashText(s) == [i \in DOMAIN s |-> IF s[i] \in {"/", "."} THEN "-" ELSE s[i]]

\* "%04d-%02d" of the year digits y and the month digits m
YmText(y, m) == y \o <<"-">> \o ZeroPad(IntToDigits(DigitsToInt(m)), 2)

\* roadmap_logic.norm_ym and roadmap_storage._norm_ym (the same code)
norm_ym(v) ==
    Only({IF t = << >> THEN s_empty
          ELSE Only({IF /\ Len(u) \in {6, 7}
                        /\ AllDigits(SubSeq(u, 1, 4)) /\ u[5] = "-"
                        /\ AllDigits(SubSeq(u, 6, Len(u)))
                     THEN YmText(SubSeq(u, 1, 4), SubSeq(u, 6, Len(u)))
                     ELSE IF /\ Len(u) >= 7
                             /\ AllDigits(SubSeq(u, 1, 4)) /\ u[5] = "-"
                             /\ AllDigits(SubSeq(u, 6, 7))
                     THEN YmText(SubSeq(u, 1, 4), SubSeq(u, 6, 7))
                     ELSE u
                     : u \in {DashText(t)}})
          : t \in {IF v = PyNone THEN s_empty ELSE Strip(Str(v))}})

ROADMAP_YM_COLUMNS == <<"start_ym", "end_ym">>

\* RoadmapSheetsStorage.load_all on the cells of the worksheet (header row
\* first): start_ym and end_ym through _norm_ym
load_all(cells) ==
    IF Len(cells) < 2 THEN [columns |-> ROADMAP_YM_COLUMNS, rows |-> << >>, index |-> << >>]
    ELSE [columns |-> ROADMAP_YM_COLUMNS,
          rows |-> [i \in 1..(Len(cells) - 1) |->
                      [start_ym |-> PyStr(norm_ym(PyStr(cells[i + 1][1]))),
                       end_ym |-> PyStr(norm_ym(PyStr(cells[i + 1][2])))]],
          index |-> [i \in 1..(Len(cells) - 1) |-> i]]

\* a <= b for two str values
StrLeq(a, b) == a = b \/ StrLess(a, b)

\* df.loc[mask]: the rows at the places keep, in their order, with their labels
RowsAt(f, keep) ==
    Only({[columns |-> f.columns,
           rows |-> [k \in 1..Cardinality(keep) |-> f.rows[at[k]]],
           index |-> [k \in 1..Cardinality(keep) |-> f.index[at[k]]]]
          : at \in {[k \in 1..Cardinality(keep) |->
                       CHOOSE i \in keep : Cardinality({j \in keep : j < i}) = k - 1]}})

\* pick_active_rows with the two bounds of the period compared the other way
pick_active_rows_end_first(f, ym) ==
    IF DfEmpty(f) THEN f
    ELSE Only({IF target = s_empty THEN RowsAt(f, {})
               ELSE RowsAt(f, {i \in DOMAIN f.rows :
                                  /\ StrLeq(Str(f.rows[i]["end_ym"]), target)
                                  /\ StrLeq(target, Str(f.rows[i]["start_ym"]))})
               : target \in {norm_ym(ym)}})

\* roadmap_logic.pick_active_rows
pick_active_rows(f, ym) ==
    IF DfEmpty(f) THEN f
    ELSE Only({IF target = s_empty THEN RowsAt(f, {})
               ELSE RowsAt(f, {i \in DOMAIN f.rows :
                                  /\ StrLeq(Str(f.rows[i]["start_ym"]), target)
                                  /\ StrLeq(target, Str(f.rows[i]["end_ym"]))})
               : target \in {norm_ym(ym)}})

\* a row of a table as a Series: its label and its cells
SeriesAt(f, i) ==
    [name |-> f.index[i], start_ym |-> f.rows[i]["start_ym"], end_ym |-> f.rows[i]["end_ym"]]

\* roadmap_logic.pick_latest_row: the rows sort_values(by=["_k"]) may put
\* last (the sort need not keep the order of rows with equal keys), {None}
\* for an empty table
pick_latest_row(f) ==
    IF DfEmpty(f) THEN {PyNone}
    ELSE {SeriesAt(f, i) :
            i \in {j \in DOMAIN f.rows :
                      \A k \in DOMAIN f.rows :
                          StrLeq(Str(f.rows[k]["start_ym"]), Str(f.rows[j]["start_ym"]))}}

\* report_logic._parse_ym
_parse_ym(ym) ==
    Only({IF t = << >> THEN PyNone ELSE to_datetime(PyStr(t \o <<"-", "0", "1">>))
          : t \in {Strip(ym)}})

\* report_logic._ym_in_range
_ym_in_range(target_ym, start_ym, end_ym) ==
    \E t \in {_parse_ym(target_ym)}, s \in {_parse_ym(start_ym)}, e \in {_parse_ym(end_ym)} :
        IF t = PyNone \/ s = PyNone \/ e = PyNone THEN FALSE
        ELSE IF t = NaT \/ s = NaT \/ e = NaT THEN FALSE
        ELSE ~TsLess(t, s) /\ ~TsLess(e, t)

\* report_logic._pick_roadmap_row_for_ym: the first row of the table whose
\* period has the month
_pick_roadmap_row_for_ym(f, ym) ==
    IF DfEmpty(f) THEN PyNone
    ELSE Only({IF hit = {} THEN PyNone ELSE SeriesAt(f, MinOf(hit))
               : hit \in {{i \in DOMAIN f.rows :
                             _ym_in_range(ym, Str(f.rows[i]["start_ym"]),
                                          Str(f.rows[i]["end_ym"]))}}})

(* SpecRoadmap: the roadmap worksheet is loaded; the roadmap page shows the  *)
(* rows of a month and the row it adopts, the report picks its row of a      *)
(* month, and pick_active_rows is called with any text as the month.         *)
(* values holds the cells of the worksheet, df the loaded table.             *)

\* the most rows of the roadmap worksheet
MaxRoadmapRows == 2

\* the cells of start_ym and end_ym: months as YYYY-MM, with / or . and one
\* digit, and an empty cell
StartYmCells == {<<"2","0","2","3","-","1","1">>, <<"2","0","2","4","/","3">>,
                 <<"2","0","2","4","-","0","5">>, s_empty}
EndYmCells == {<<"2","0","2","4","-","0","2">>, <<"2","0","2","4",".","4">>,
               <<"2","0","2","4","-","0","6">>, s_empty}

\* the months of the date input of the page and of the period of the report
RoadmapMonths == {<<"2","0","2","4","-","0",m>> : m \in {"1", "2", "3", "4", "5", "6"}}

\* the values handed to pick_active_rows as ym: a month, a month to be
\* normalised, no text, and texts that are no month
YmInputs ==
    {PyStr(<<"2","0","2","4","-","0","3">>), PyStr(<<" ","2","0","2","4","/","3">>),
     PyStr(s_empty), PyNone, PyStr(<<"2","0","2","4">>), PyStr(<<"a","b","c">>)}

InitRoadmap ==
    /\ arg = PyNone
    /\ df = [columns |-> ROADMAP_YM_COLUMNS, rows |-> << >>, index |-> << >>]
    /\ values \in {<<ROADMAP_YM_COLUMNS>> \o r :
                     r \in UNION {[1..n -> StartYmCells \X EndYmCells] : n \in 0..MaxRoadmapRows}}
    /\ d = Day1
    /\ op = "input"
    /\ ret = PyNone
    /\ NoStore

\* rm_storage.load_all()
RoadmapLoad ==
    /\ op = "input"
    /\ df' = load_all(values)
    /\ ret' = df'
    /\ op' = "load_all"
    /\ UNCHANGED <<storeVars, arg, values, d>>

\* render_roadmap: the rows of the month of the date input and the row adopted
RenderRoadmap ==
    /\ op # "input"
    /\ \E ym \in RoadmapMonths :
          /\ arg' = PyStr(ym)
          /\ \E hit \in {pick_active_rows(df, PyStr(ym))} :
                \E chosen \in (IF DfEmpty(hit) THEN {PyNone} ELSE pick_latest_row(hit)) :
                    ret' = [hit |-> hit, chosen |-> chosen]
    /\ op' = "render_roadmap"
    /\ UNCHANGED <<storeVars, df, values, d>>

\* pick_active_rows(df, ym)
CallPickActiveRows ==
    /\ op # "input"
    /\ \E ym \in YmInputs :
          /\ arg' = ym
          /\ ret' = pick_active_rows(df, ym)
    /\ op' = "pick_active_rows"
    /\ UNCHANGED <<storeVars, df, values, d>>

\* build_report_data: the roadmap row of one month of the period
ReportRoadmapRow ==
    /\ op # "input"
    /\ \E ym \in RoadmapMonths :
          /\ arg' = PyStr(ym)
          /\ ret' = _pick_roadmap_row_for_ym(df, ym)
    /\ op' = "_pick_roadmap_row_for_ym"
    /\ UNCHANGED <<storeVars, df, values, d>>

NextRoadmap ==
    \/ RoadmapLoad
    \/ RenderRoadmap
    \/ CallPickActiveRows
    \/ ReportRoadmapRow

SpecRoadmap == InitRoadmap /\ [][NextRoadmap]_vars

-----------------------------------------------------------------------------
(* report_logic.py: build_report_data *)

\* pd.to_datetime(v, errors="coerce") of one value: a date input, a text or None
to_datetime_scalar(v) ==
    IF v = PyNone THEN PyNone
    ELSE IF v.t = "date" THEN Timestamp(v.n, 0)
    ELSE to_datetime(v)

\* pd.isna of such a value
IsNaTs(x) == x = PyNone \/ x = NaT

\* the count of months up to the month of a Timestamp, and the text YYYY-MM of
\* such a count
MonthCount(t) == 12 * (t.n \div 10000) + ((t.n \div 100) % 100) - 1
MonthText(k) == ZeroPad(IntToDigits(k \div 12), 4) \o <<"-">> \o ZeroPad(IntToDigits((k % 12) + 1), 2)

\* report_logic._month_range_ym
_month_range_ym(start_date, end_date) ==
    IF IsNaTs(start_date) \/ IsNaTs(end_date) THEN << >>
    ELSE [k \in 1..(MonthCount(end_date) - MonthCount(start_date) + 1) |->
             MonthText(MonthCount(start_date) + k - 1)]

\* e + pd.Timedelta(days=1) - pd.Timedelta(seconds=1)
EndOfDay(e) ==
    IF e.e = 0 THEN Timestamp(e.n, 86399)
    ELSE Timestamp(fromordinal(toordinal(PyDate(e.n)) + 1).n, e.e - 1)

\* a <= b for two Timestamps
TsLeq(a, b) == ~TsLess(b, a)

\* the rows of the period with the start day left out
PeriodRowsAfterStart(dts, s, e) ==
    IF IsNaTs(s) \/ IsNaTs(e) THEN {i \in DOMAIN dts : dts[i] # NaT}
    ELSE {i \in DOMAIN dts : dts[i] # NaT /\ TsLess(s, dts[i]) /\ TsLeq(dts[i], EndOfDay(e))}

\* the places of the rows df_period keeps: every row with a date if start or
\* end is no date, else the rows from s to the last second of the day of e
PeriodRows(dts, s, e) ==
    IF IsNaTs(s) \/ IsNaTs(e) THEN {i \in DOMAIN dts : dts[i] # NaT}
    ELSE {i \in DOMAIN dts : dts[i] # NaT /\ TsLeq(s, dts[i]) /\ TsLeq(dts[i], EndOfDay(e))}

\* the dict of a Series of the roadmap table, {} for None
RoadmapDict(row) ==
    IF row = PyNone THEN EmptyDict
    ELSE [c \in {"start_ym", "end_ym"} |-> row[c]]

\* str(start_date)
DateStr(v) == IF v # PyNone /\ v.t = "date" THEN isoformat(v) ELSE Str(v)

\* build_report_data; order is the order sort_values("_dt") gives the rows
\* of the period (rows with the same date may come in any order)
build_report_data(portfolio_df, roadmap_df, start_date, end_date, order) ==
    Only({Only({[meta |-> [start_date |-> DateStr(start_date),
                           end_date |-> DateStr(end_date),
                           months |-> months,
                           portfolio_rows |-> Len(order),
                           has_roadmap |-> ~DfEmpty(roadmap_df)],
                 portfolio |->
                     [columns |-> (IF DfEmpty(portfolio_df) THEN << >> ELSE portfolio_df.columns)
                                      \o <<"_dt">>,
                      rows |-> [k \in DOMAIN order |->
                                  [c \in DOMAIN portfolio_df.rows[order[k]] \cup {"_dt"} |->
                                      IF c = "_dt"
                                      THEN to_datetime(portfolio_df.rows[order[k]]["date"])
                                      ELSE portfolio_df.rows[order[k]][c]]]],
                 roadmap_for_month |->
                     [ym \in Range(months) |->
                         RoadmapDict(_pick_roadmap_row_for_ym(roadmap_df, ym))],
                 months |-> months]
                : months \in {_month_range_ym(s, e)}})
          : s \in {to_datetime_scalar(start_date)}, e \in {to_datetime_scalar(end_date)}})

\* the orders sort_values("_dt") may give the rows at the places keep
SortedByDt(dts, keep) ==
    {q \in [1..Cardinality(keep) -> keep] :
        /\ \A i, j \in 1..Cardinality(keep) : i # j => q[i] # q[j]
        /\ \A i \in 1..(Cardinality(keep) - 1) : TsLeq(dts[q[i]], dts[q[i + 1]])}

(* SpecReport: render_report builds the report from the loaded portfolio table *)
(* df, the roadmap worksheet values and the dates arg of its two date inputs   *)

\* the most rows of the portfolio table
MaxReportRows == 3

\* the date cells of the portfolio table, and the values of start and end
ReportDateCells ==
    {PyStr(isoformat(PyDate(n))) : n \in {20240131, 20240201, 20240202}}
        \cup {PyStr(<<"b","a","d">>)}
ReportDateInputs ==
    {PyDate(20240131), PyDate(20240201), PyDate(20240202), PyStr(<<"b","a","d">>), PyNone}

\* the portfolio tables: a date and, as note, the place of the row
ReportTables ==
    {[columns |-> <<"date", "note">>,
      rows |-> [i \in DOMAIN r |-> [date |-> r[i], note |-> PyStr(IntToDigits(i))]]] :
        r \in UNION {[1..n -> ReportDateCells] : n \in 1..MaxReportRows}}
        \cup {EmptyDataFrame(PORTFOLIO_COLUMNS)}

InitReport ==
    /\ arg \in [start_date : ReportDateInputs, end_date : ReportDateInputs]
    /\ df \in ReportTables
    /\ values \in {<<ROADMAP_YM_COLUMNS>>,
                   <<ROADMAP_YM_COLUMNS, <<<<"2","0","2","4","-","0","2">>, <<"2","0","2","4","-","0","3">> >> >>}
    /\ d = Day1
    /\ op = "input"
    /\ ret = PyNone
    /\ NoStore

\* render_report: roadmap_df = rs.load_all(), report = build_report_data(...)
ReportBuild ==
    /\ op = "input"
    /\ \E dts \in {[i \in DOMAIN df.rows |-> to_datetime(df.rows[i]["date"])]} :
          \E order \in SortedByDt(dts, PeriodRows(dts, to_datetime_scalar(arg.start_date),
                                                  to_datetime_scalar(arg.end_date))) :
              ret' = build_report_data(df, load_all(values), arg.start_date, arg.end_date, order)
    /\ op' = "build_report_data"
    /\ UNCHANGED <<storeVars, arg, df, values, d>>

NextReport == ReportBuild

SpecReport == InitReport /\ [][NextReport]_vars

-----------------------------------------------------------------------------
(* properties of the cell classifiers, checked under SpecCell *)

\* C8, as the code has it: _valid_numeric returns None exactly when the value
\* is None, cannot be read as a number, is NaN, or reads as exactly 0.0;
\* every other value, positive and negative infinity included, is returned
\* as the number read.
C8_NumericBlank ==
    op = "_valid_numeric" =>
        \E f \in {Float(arg)} :
            /\ ret = PyNone <=>
                  \/ arg = PyNone
                  \/ f = Raised
                  \/ f.t = "nan"
                  \/ f.t = "float" /\ f.n = 0
            /\ ret # PyNone => ret = f

\* C8 as stated: _valid_numeric returns None exactly when the value is None,
\* unparseable, NaN, positive or negative infinity, or reads as exactly 0.0.
C8_NumericBlankWithInfinity ==
    op = "_valid_numeric" =>
        \E f \in {Float(arg)} :
            ret = PyNone <=>
                \/ arg = PyNone
                \/ f = Raised
                \/ f.t \in {"nan", "inf", "ninf"}
                \/ f.t = "float" /\ f.n = 0

\* an infinity written as text went through _valid_numeric and came back
C8_InfinityPresent ==
    /\ op = "_valid_numeric"
    /\ arg.t = "str"
    /\ Float(arg).t \in {"inf", "ninf"}
    /\ ret = Float(arg)

\* C9, as the code has it: on None and on texts, _is_blank and _valid_text
\* report blank exactly when the value is None or its trimmed lower-cased
\* form is "", "nan" or "none", and _is_blank_like exactly when the value is
\* None or that form is "" or "nan"; a present text comes back trimmed.
C9_TextBlank ==
    arg.t \in {"None", "str"} =>
        \E norm \in {Lower(Strip(arg.s))} :
            /\ op = "_is_blank" =>
                  (ret = PyTrue <=> (arg = PyNone \/ norm \in {s_empty, s_nan, s_none}))
            /\ op = "_valid_text" =>
                  /\ ret = PyNone <=> (arg = PyNone \/ norm \in {s_empty, s_nan, s_none})
                  /\ ret # PyNone => ret = PyStr(Strip(arg.s))
            /\ op = "_is_blank_like" =>
                  (ret = PyTrue <=> (arg = PyNone \/ norm \in {s_empty, s_nan}))

\* C9 as stated: _valid_text, _is_blank and _is_blank_like report a text as
\* blank exactly when it is None or its trimmed lower-cased form is one of
\* "", "nan", "none", "null".
C9_TextBlankWithNull ==
    arg.t \in {"None", "str"} =>
        \E norm \in {Lower(Strip(arg.s))} :
            /\ op \in {"_is_blank", "_is_blank_like"} =>
                  (ret = PyTrue <=>
                      (arg = PyNone \/ norm \in {s_empty, s_nan, s_none, s_null}))
            /\ op = "_valid_text" =>
                  (ret = PyNone <=>
                      (arg = PyNone \/ norm \in {s_empty, s_nan, s_none, s_null}))

\* the text "null", in some case and padding, went through _valid_text and
\* came back as a present text
C9_NullPresent ==
    /\ op = "_valid_text"
    /\ arg.t = "str"
    /\ Lower(Strip(arg.s)) = s_null
    /\ ret = PyStr(Strip(arg.s))

\* C10: _valid_bool returns True exactly when the trimmed lower-cased form of
\* the value is in {true, 1, yes, y, on}, False exactly when it is in
\* {false, 0, no, n, off}, and None for every other value (None and ""
\* included); a tcenter cell that maps to False is present in resolution and
\* in the exact-date lookup: it is the tcenter of the result although an
\* earlier record of the same date holds True.
C10_BoolClassifier ==
    \E norm \in {Lower(Strip(Str(arg)))} :
        /\ op = "_valid_bool" =>
              ret = IF arg = PyNone THEN PyNone
                    ELSE IF norm \in {s_true, s_1, s_yes, s_y, s_on} THEN PyTrue
                    ELSE IF norm \in {s_false, s_0, s_no, s_n, s_off} THEN PyFalse
                    ELSE PyNone
        /\ (/\ op \in {"_latest_values_from_df", "_values_for_selected_date"}
            /\ arg # PyNone
            /\ norm \in {s_false, s_0, s_no, s_n, s_off}) =>
              ("tcenter" \in DOMAIN ret /\ ret["tcenter"] = PyFalse)

\* the text "off", in some case and padding, was the latest tcenter cell and
\* the resolver returned False for tcenter
C10_FalsePresent ==
    /\ op = "_latest_values_from_df"
    /\ arg.t = "str"
    /\ Lower(Strip(arg.s)) = s_off
    /\ "tcenter" \in DOMAIN ret
    /\ ret["tcenter"] = PyFalse

-----------------------------------------------------------------------------
(* properties of the resolvers, checked under SpecDf *)

\* the rows of f whose cell of column c the resolver accepts
ValidRows(f, c) ==
    IF HasCol(f, c) THEN {i \in DOMAIN f.rows : LatestValid(c, f.rows[i][c]) # PyNone}
    ELSE {}

\* resolution in insertion order: for each column the value of the last
\* appended record whose cell is accepted, no key where there is none
InsertionLatest(f) ==
    [c \in {k \in PortfolioColumnSet : ValidRows(f, k) # {}} |->
        LatestValid(c, f.rows[MaxOf(ValidRows(f, c))][c])]

\* record j comes after record i by date: by the parsed date with the
\* unparseable ones after every parsed one, then by the text of the date
\* cell, then by the place in the table; without _date_dt by the text alone
ComesAfter(f, j, i) ==
    \E ti \in {to_datetime(f.rows[i]["date"])}, tj \in {to_datetime(f.rows[j]["date"])},
       si \in {f.rows[i]["date"].s}, sj \in {f.rows[j]["date"].s} :
        IF HasCol(f, "_date_dt")
        THEN \/ ti # NaT /\ tj = NaT
             \/ ti # NaT /\ tj # NaT /\ TsLess(ti, tj)
             \/ ti = tj /\ (StrLess(si, sj) \/ (si = sj /\ i < j))
        ELSE StrLess(si, sj)

\* C1, as the code has it: _latest_values_from_df returns for every column
\* the accepted value of the record that is last by date among the records
\* whose cell of that column is accepted (parsed date ascending, records
\* with an unparseable date after all others, then the text of the date
\* cell, and the insertion order only among records equal in both); a column
\* with no accepted cell is no key of the result.
C1_LatestByDate ==
    op = "_latest_values_from_df" =>
        \A c \in PortfolioColumnSet :
            \E V \in {ValidRows(df, c)} :
                IF V = {} THEN c \notin DOMAIN ret
                ELSE /\ c \in DOMAIN ret
                     /\ \E i \in V :
                           /\ ret[c] = LatestValid(c, df.rows[i][c])
                           /\ \A j \in V : ~ComesAfter(df, j, i)

\* C1 as stated: _latest_values_from_df returns for every column the value
\* of the most recently inserted record whose cell is not blank-like; the
\* dates of the records do not change the scan order.
C1_LatestByInsertion ==
    op = "_latest_values_from_df" => ret = InsertionLatest(df)

\* the record of the later day was appended first, and the resolver returned
\* its weight
C1_LaterDateWins ==
    /\ op = "_latest_values_from_df"
    /\ HasCol(df, "_date_dt")
    /\ NRows(df) = 2
    /\ df.rows[1]["date"] = PyStr(isoformat(Day2))
    /\ df.rows[2]["date"] = PyStr(isoformat(Day1))
    /\ df.rows[1]["weight_kg"] = PyFloat(70, 0)
    /\ df.rows[2]["weight_kg"] = PyFloat(655, 1)
    /\ ret["weight_kg"] = PyFloat(70, 0)

\* the validity test _values_for_selected_date applies to a cell of column c
SelectedValid(c, v) ==
    IF c \in numeric_cols THEN _valid_numeric(v)
    ELSE IF c = "tcenter" THEN _valid_bool(v)
    ELSE _valid_text(v)

\* the rows of the table whose date cell is the ISO text of the selected date
SameDayRows == {i \in DOMAIN df.rows : df.rows[i]["date"] = PyStr(isoformat(d))}

\* C3, as the code has it: _values_for_selected_date returns the accepted
\* cells of the latest-inserted record of the selected date and of no other
\* record: a column whose cell in that record is blank-like is no key of the
\* result, whatever earlier records of the same date hold.
C3_LastSameDayRow ==
    op = "_values_for_selected_date" =>
        IF SameDayRows = {} THEN ret = EmptyDict
        ELSE \E last \in {df.rows[MaxOf(SameDayRows)]} :
                /\ DOMAIN ret \subseteq numeric_cols \cup text_cols \cup {"tcenter"}
                /\ \A c \in numeric_cols \cup text_cols \cup {"tcenter"} :
                      \E v \in {SelectedValid(c, last[c])} :
                          IF v = PyNone THEN c \notin DOMAIN ret
                          ELSE c \in DOMAIN ret /\ ret[c] = v

\* C3 as stated: _values_for_selected_date resolves every column among the
\* records of the selected date, returning the value of the latest-inserted
\* of them whose cell is not blank-like.
C3_PerColumnAmongSameDay ==
    op = "_values_for_selected_date" =>
        \A c \in numeric_cols \cup text_cols \cup {"tcenter"} :
            \E V \in {{i \in SameDayRows : SelectedValid(c, df.rows[i][c]) # PyNone}} :
                IF V = {} THEN c \notin DOMAIN ret
                ELSE c \in DOMAIN ret /\ ret[c] = SelectedValid(c, df.rows[MaxOf(V)][c])

\* two records of the selected date, the earlier with a weight and the later
\* without: the lookup returned no weight
C3_EarlierValueErased ==
    /\ op = "_values_for_selected_date"
    /\ SameDayRows = {1, 2}
    /\ _valid_numeric(df.rows[1]["weight_kg"]) # PyNone
    /\ _valid_numeric(df.rows[2]["weight_kg"]) = PyNone
    /\ "weight_kg" \notin DOMAIN ret

\* every record of the table is of one calendar day, and there are several
SameDay(f) ==
    /\ NRows(f) >= 2
    /\ \E t \in {to_datetime(f.rows[1]["date"])} :
          t # NaT /\ \A i \in DOMAIN f.rows : to_datetime(f.rows[i]["date"]) = t

\* C4: among records of one calendar date, resolution keeps the append
\* order, so that the result is the one of resolution in insertion order, in
\* _latest_values_from_df and in latest_non_empty_by_column, however the date
\* cells are written.
C4_SameDayKeepsAppendOrder ==
    SameDay(df) =>
        /\ op = "_latest_values_from_df" => ret = InsertionLatest(df)
        /\ op = "latest_non_empty_by_column" =>
              ret = latest_non_empty_by_column(df, RowOrder(NRows(df)))

\* two records of one day, the earlier written 2024-2-2 and the later
\* 2024-02-02: the resolver returned the weight of the earlier
C4_DateTextDecides ==
    /\ op = "_latest_values_from_df"
    /\ HasCol(df, "_date_dt")
    /\ NRows(df) = 2
    /\ df.rows[1]["date"] = PyStr(Unpadded(Day2))
    /\ df.rows[2]["date"] = PyStr(isoformat(Day2))
    /\ df.rows[1]["weight_kg"] = PyFloat(70, 0)
    /\ df.rows[2]["weight_kg"] = PyFloat(655, 1)
    /\ ret["weight_kg"] = PyFloat(70, 0)

\* f without the records whose date cannot be parsed
Parseable(f) ==
    [f EXCEPT !.rows = SelectSeq(f.rows, LAMBDA r : to_datetime(r["date"]) # NaT)]

\* C5: a record whose date cannot be parsed is excluded from resolution: the
\* result is the one of the table without those records.
C5_UnparseableExcluded ==
    /\ op = "_latest_values_from_df" =>
          \E order \in LatestSortOrders(Parseable(df)) :
              ret = _latest_values_from_df(Parseable(df), order)
    /\ op = "latest_non_empty_by_column" =>
          \E order \in UtilsSortOrders(Parseable(df)) :
              ret = latest_non_empty_by_column(Parseable(df), order)

\* a record with a date and one whose date cell is no date: the resolver
\* returned the weight of the second
C5_UnparseableWins ==
    /\ op = "_latest_values_from_df"
    /\ HasCol(df, "_date_dt")
    /\ NRows(df) = 2
    /\ to_datetime(df.rows[1]["date"]) # NaT
    /\ to_datetime(df.rows[2]["date"]) = NaT
    /\ df.rows[1]["weight_kg"] = PyFloat(70, 0)
    /\ df.rows[2]["weight_kg"] = PyFloat(655, 1)
    /\ ret["weight_kg"] = PyFloat(655, 1)

\* the rows of the table whose date cell denotes the selected calendar day
CalendarDayRows ==
    {i \in DOMAIN df.rows :
        \E t \in {to_datetime(df.rows[i]["date"])} : t # NaT /\ t.n = d.n}

\* C12: _values_for_selected_date returns the empty mapping whenever no
\* record's date is the selected date (no date cell is its ISO text, and so
\* whenever no date cell denotes that calendar day), whatever the other
\* records hold.
C12_NoMatchIsEmpty ==
    op = "_values_for_selected_date" =>
        /\ SameDayRows = {} => ret = EmptyDict
        /\ CalendarDayRows = {} => ret = EmptyDict

\* two records with a weight, none of the selected date: the lookup
\* returned the empty mapping
C12_OtherDatesIgnored ==
    /\ op = "_values_for_selected_date"
    /\ NRows(df) = 2
    /\ CalendarDayRows = {}
    /\ \A i \in {1, 2} : to_datetime(df.rows[i]["date"]) # NaT
    /\ \A i \in {1, 2} : _valid_numeric(df.rows[i]["weight_kg"]) # PyNone
    /\ ret = EmptyDict

\* C13, as the code has it: _values_for_selected_date matches a record
\* exactly when the text of its date cell is the ISO text (YYYY-MM-DD) of the
\* selected date; a record that denotes the same calendar day in another
\* form is not matched, and every value returned is a cell of a matched
\* record.
C13_MatchByIsoText ==
    op = "_values_for_selected_date" =>
        /\ SameDayRows = {} => ret = EmptyDict
        /\ SameDayRows # {} =>
              \A c \in DOMAIN ret :
                  ret[c] = SelectedValid(c, df.rows[MaxOf(SameDayRows)][c])

\* C13 as stated: the lookup matches every record whose date cell denotes
\* the selected calendar day, whatever its textual form: the result is that
\* of the last such record.
C13_MatchByCalendarDay ==
    op = "_values_for_selected_date" =>
        ret = IF CalendarDayRows = {} THEN EmptyDict
              ELSE SelectedRowValues(df.rows[MaxOf(CalendarDayRows)])

\* one record of the selected day written 2024-2-2, with a weight: the
\* lookup returned the empty mapping
C13_OtherFormNotMatched ==
    /\ op = "_values_for_selected_date"
    /\ d = Day2
    /\ NRows(df) = 1
    /\ df.rows[1]["date"] = PyStr(Unpadded(Day2))
    /\ df.rows[1]["weight_kg"] = PyFloat(70, 0)
    /\ ret = EmptyDict

\* f without its row j
RemoveRow(f, j) ==
    [f EXCEPT !.rows = [i \in 1..(Len(f.rows) - 1) |->
                           IF i < j THEN f.rows[i] ELSE f.rows[i + 1]]]

\* the value _latest_values_from_df gives column c of the normalised table
\* f (None if c is no key), the sort of such a table having one outcome
ResolvedValue(f, c) ==
    Only({IF c \in DOMAIN r THEN r[c] ELSE PyNone
          : r \in {_latest_values_from_df(f, Only(LatestSortOrders(f)))}})

\* C14, as the code has it: on a normalised table, if R is the record that
\* is last by date among the records with a non-blank cell of column C
\* (the record that supplies the resolved value), then removing any other
\* record leaves the resolved value of C unchanged.
C14_RemovingOthersKeepsValue ==
    (op = "_latest_values_from_df" /\ HasCol(df, "_date_dt")) =>
        \A c \in PortfolioColumnSet :
            \A i \in ValidRows(df, c) :
                (\A k \in ValidRows(df, c) : ~ComesAfter(df, k, i)) =>
                    \A j \in DOMAIN df.rows \ {i} :
                        ResolvedValue(RemoveRow(df, j), c) = ret[c]

\* C14 as stated: if R is the latest-inserted record with a non-blank cell
\* of column C, removing any record inserted before R leaves the resolved
\* value of C unchanged.
C14_RemovingOlderKeepsValue ==
    (op = "_latest_values_from_df" /\ HasCol(df, "_date_dt")) =>
        \A c \in PortfolioColumnSet :
            ValidRows(df, c) # {} =>
                \A j \in 1..(MaxOf(ValidRows(df, c)) - 1) :
                    ResolvedValue(RemoveRow(df, j), c) = ret[c]

\* the record of the later day was appended first: the resolved weight is
\* its 70, and 65.5 once it is removed
C14_OlderRecordSupplies ==
    /\ op = "_latest_values_from_df"
    /\ HasCol(df, "_date_dt")
    /\ NRows(df) = 2
    /\ df.rows[1]["date"] = PyStr(isoformat(Day2))
    /\ df.rows[2]["date"] = PyStr(isoformat(Day1))
    /\ df.rows[1]["weight_kg"] = PyFloat(70, 0)
    /\ df.rows[2]["weight_kg"] = PyFloat(655, 1)
    /\ ret["weight_kg"] = PyFloat(70, 0)
    /\ ResolvedValue(RemoveRow(df, 1), "weight_kg") = PyFloat(655, 1)

\* the table f with the cell of column c of its row i replaced by v
WithCell(f, i, c, v) == [f EXCEPT !.rows[i][c] = v]

\* the cells the input records hold in column c
CellsOf(c) ==
    CASE c = "weight_kg" -> WeightCells
      [] c = "note" -> NoteCells
      [] c = "tcenter" -> TcenterCells

\* the dicts r and q agree on every key other than b
AgreeBut(r, q, b) ==
    \A a \in PortfolioColumnSet \ {b} :
        /\ a \in DOMAIN r <=> a \in DOMAIN q
        /\ a \in DOMAIN r => r[a] = q[a]

\* C15: columns are resolved independently.  Replacing one cell of a column
\* B of the table (dates and record order kept) changes the resolved value
\* of no other column A, in _latest_values_from_df on a normalised table
\* and in latest_non_empty_by_column; tables that agree on column A are
\* joined by such replacements.
C15_ColumnsIndependent ==
    /\ (op = "_latest_values_from_df" /\ HasCol(df, "_date_dt")) =>
          \A i \in DOMAIN df.rows :
              \A b \in {"weight_kg", "note", "tcenter"} :
                  \A v \in CellsOf(b) :
                      \E f2 \in {WithCell(df, i, b, v)} :
                          AgreeBut(_latest_values_from_df(f2, Only(LatestSortOrders(f2))),
                                   ret, b)
    /\ (op = "latest_non_empty_by_column" /\ ~DfEmpty(df)) =>
          \A i \in DOMAIN df.rows :
              \A b \in {"weight_kg", "note", "tcenter"} :
                  \A v \in CellsOf(b) :
                      \E f2 \in {WithCell(df, i, b, v)} :
                          \E order \in UtilsSortOrders(f2) :
                              AgreeBut(latest_non_empty_by_column(f2, order), ret, b)

\* the weight comes from one record and the note from another, and blanking
\* the weight cell leaves the resolved note as it is
C15_TwoRecordsSupply ==
    /\ op = "_latest_values_from_df"
    /\ HasCol(df, "_date_dt")
    /\ NRows(df) = 2
    /\ df.rows[1]["note"] = PyStr(<<"o","k">>)
    /\ df.rows[2]["note"] = PyStr(s_empty)
    /\ df.rows[2]["weight_kg"] = PyFloat(70, 0)
    /\ ret["weight_kg"] = PyFloat(70, 0)
    /\ ret["note"] = PyStr(<<"o","k">>)
    /\ ResolvedValue(WithCell(df, 2, "weight_kg", PyFloat(0, 0)), "note") = PyStr(<<"o","k">>)
    /\ ResolvedValue(WithCell(df, 2, "weight_kg", PyFloat(0, 0)), "weight_kg") = PyNone

-----------------------------------------------------------------------------
(* properties of the page and of PortfolioStorage, checked under Spec *)

\* the page has run
PageShown == op \in {"render_portfolio_page", "save"}

\* the records of the worksheet, as rows of values
SheetRecords == 2..Len(values)

\* the text of column c in row i of the worksheet
SheetCell(i, c) == values[i][ColIndex(c)]

\* the worksheet with 0 written into every empty cell of a numeric column
ZeroFilled(vals) ==
    [i \in DOMAIN vals |->
        IF i = 1 THEN vals[1]
        ELSE [k \in DOMAIN vals[i] |->
                IF PORTFOLIO_COLUMNS[k] \in numeric_cols /\ vals[i][k] = s_empty
                THEN s_0 ELSE vals[i][k]]]

\* a == b for two values of a result (an int equals the float of its value)
PyEq(a, b) ==
    \/ a = b
    \/ a.t \in {"int", "float"} /\ b.t \in {"int", "float"} /\ Float(a) = Float(b)

\* C2: replacing the empty numeric cells by 0 leaves the result of
\* latest-value resolution unchanged for every column; here for
\* PortfolioStorage.get_latest_values, whose result the page shows as the
\* previous values.
C2_ZeroSameAsEmpty ==
    PageShown =>
        \E zero \in {get_latest_values(ZeroFilled(values))} :
            /\ DOMAIN ret.latest_all = DOMAIN zero
            /\ \A c \in DOMAIN zero : PyEq(ret.latest_all[c], zero[c])

\* a record with weight 70 and a later record with an empty weight: the
\* previous value of the weight is NaN
C2_EmptyCellReplacesValue ==
    /\ PageShown
    /\ Len(values) = 3
    /\ SheetCell(2, "weight_kg") = <<"7", "0">>
    /\ SheetCell(3, "weight_kg") = s_empty
    /\ "weight_kg" \in DOMAIN ret.latest_all
    /\ ret.latest_all["weight_kg"] = PyNaN

\* C6, as the code has it: no cutoff is applied.  The previous values the
\* page shows are those of get_latest_values over all records of the
\* worksheet, and they are the same whatever date is selected.
C6_NoCutoff ==
    PageShown =>
        /\ ret.latest_all = get_latest_values(values)
        /\ \A dv \in PageDates : render_portfolio_page(values, dv).latest_all = ret.latest_all

\* C6 as stated: with the selected date as cutoff, only records dated at or
\* before it contribute: a column that is a key of the result (with a value
\* other than NaN) has a non-empty cell in a record dated at or before the
\* selected date.
C6_OnlyUpToCutoff ==
    PageShown =>
        \A c \in DOMAIN ret.latest_all :
            \/ ret.latest_all[c] = PyNaN
            \/ \E i \in SheetRecords :
                  /\ ~StrLess(isoformat(d), SheetCell(i, "date"))
                  /\ SheetCell(i, c) # s_empty

\* the only record is of the second day and has weight 70; with the first
\* day selected the page shows 70 as the previous weight
C6_LaterRecordShown ==
    /\ op = "render_portfolio_page"
    /\ d = Day1
    /\ Len(values) = 2
    /\ SheetCell(2, "date") = isoformat(Day2)
    /\ SheetCell(2, "weight_kg") = <<"7", "0">>
    /\ "weight_kg" \in DOMAIN ret.latest_all
    /\ ret.latest_all["weight_kg"] = PyInt(70)

\* C7: a column for which no record has a non-blank value is no key of the
\* mapping the resolver returns, and on a table without records the mapping
\* has no key; here for PortfolioStorage.get_latest_values, whose result the
\* page shows as the previous values.
C7_NoKeyWithoutValue ==
    PageShown =>
        /\ SheetRecords = {} => ret.latest_all = EmptyDict
        /\ \A c \in DOMAIN ret.latest_all :
              \E i \in SheetRecords : SheetCell(i, c) \notin {s_empty, s_0}

\* one record, its 100 m time left empty: run_100m_sec is a key of the
\* previous values
C7_KeyOfEmptyColumn ==
    /\ PageShown
    /\ Len(values) = 2
    /\ SheetCell(2, "run_100m_sec") = s_empty
    /\ "run_100m_sec" \in DOMAIN ret.latest_all

-----------------------------------------------------------------------------
(* properties of the resolvers on malformed tables, checked under SpecCols *)

C16_TableUnchanged ==
    [][op' \in {"_normalize_df", "_latest_values_from_df", "_values_for_selected_date"}
          => df' = df]_vars

\* _normalize_df has run on a table that lacked the weight_kg column: the
\* table the caller holds now ends with that column and _date_dt, and is
\* the table returned
C16_CallerTableGrown ==
    /\ op = "_normalize_df"
    /\ NRows(df) = 1
    /\ df.columns[Len(df.columns)] = "_date_dt"
    /\ df.columns[Len(df.columns) - 1] = "weight_kg"
    /\ df.rows[1]["weight_kg"] = PyStr(s_empty)
    /\ ret = df

-----------------------------------------------------------------------------
(* properties of the stores, checked under SpecStore *)

\* a call of the worksheet API comes next: a write call is in progress
WriteInProgress == pc \in {"ws.clear", "ws.update", "ws.append_row", "ws.append_rows"}

\* the worksheet as the write call in progress leaves it when it completes
AfterCall ==
    IF page = "app.py" THEN RecordSheetValues(df)
    ELSE (IF prior = << >> THEN <<RECORD_COLUMNS>> ELSE prior) \o LogSheetRows(arg)

\* C17: the record store is an append-only log.  When a save of app.py has
\* completed, every row the worksheet held before the save is still there,
\* in its position and with its cells unchanged; a correction is a further
\* row.
C17_AppendOnly ==
    (page = "app.py" /\ op = "ws.update") =>
        /\ Len(values) >= Len(prior)
        /\ \A i \in DOMAIN prior : values[i] = prior[i]

\* the daily form was saved with the first row ticked and then again with
\* no row ticked: the worksheet has as many rows as before, and the done
\* cell of the first record has changed from True to False where it stood
C17_UpdatedInPlace ==
    /\ page = "app.py"
    /\ op = "ws.update"
    /\ Len(prior) = 3
    /\ Len(values) = 3
    /\ prior[2][IndexOf(RECORD_COLUMNS, "done")] = Str(PyTrue)
    /\ values[2][IndexOf(RECORD_COLUMNS, "done")] = Str(PyFalse)
    /\ \A k \in DOMAIN RECORD_COLUMNS \ {IndexOf(RECORD_COLUMNS, "done")} :
          values[2][k] = prior[2][k]

\* C18: every store write call is all-or-nothing.  After a call that raised
\* the worksheet is what it was before the call, and while a call is in
\* progress the worksheet is the one before the call or the one after it.
C18_AllOrNothing ==
    /\ op = "raise" => values = prior
    /\ WriteInProgress => values \in {prior, AfterCall}

\* ws.update raised after ws.clear had run: the worksheet that held the
\* header and records is left with no row at all
C18_ClearedSheetLeft ==
    /\ page = "app.py"
    /\ op = "raise"
    /\ pc = "run"
    /\ Len(prior) >= 2
    /\ values = << >>
    /\ NRows(df) >= 1

\* C19: a load that fails reaches the caller as a failure; it is never
\* handed on as an empty table.  When pd.read_csv cannot read the portfolio
\* file, load_all_portfolio ends with an exception and the page shows it.
C19_LoadFailureSurfaced ==
    (page = "render_report" /\ op = "read_csv raised") =>
        /\ HasRaised(ret)
        /\ msg_exception \in shown

\* the portfolio file holds a record and cannot be read: the page was
\* handed the empty table and shows that the period has no data
C19_UnreadableFileShownEmpty ==
    /\ page = "render_report"
    /\ op = "read_csv raised"
    /\ Len(csv) = 2
    /\ ret = EmptyDataFrame(PORTFOLIO_COLUMNS)
    /\ DfEmpty(df)
    /\ shown = {msg_no_data}

\* C20: when a write to the store fails, the failure reaches the caller in
\* the same interaction.  The step that raises writes nothing, to the
\* worksheet or to the CSV file, ends the handler with the exception shown
\* and no success message, and leaves no call pending; and the CSV file is
\* written only in a run that shows the fallback notice.
C20_FailureReachesCaller ==
    [][/\ op' = "raise" =>
            /\ msg_exception \in shown'
            /\ msg_saved \notin shown'
            /\ ~WriteInProgress'
            /\ values' = values
            /\ csv' = csv
       /\ (csv' # csv /\ Len(csv') > 1) => msg_csv_fallback \in shown']_vars

\* render_daily: ws.append_rows raised for the one ticked row: the exception
\* is shown, the success message is not, and the worksheet still holds its
\* header alone
C20_AppendRowsFailureShown ==
    /\ page = "render_daily"
    /\ op = "raise"
    /\ pc = "form"
    /\ Len(arg) = 1
    /\ prior = <<RECORD_COLUMNS>>
    /\ values = <<RECORD_COLUMNS>>
    /\ shown = {msg_exception}

-----------------------------------------------------------------------------
(* properties of PortfolioStorage on its worksheet, checked under SpecSheet *)

\* the row handed to the last append_row
LastAppended == arg[Len(arg)]

\* the place of the unknown column in the header row, 0 if it has none
UnknownIndex == IndexOf(values[1], UnknownColumn)

\* C21: the column set is open.  A worksheet whose header carries a column
\* outside PORTFOLIO_COLUMNS is not rejected by ensure_header, and a row
\* that carries a value for the unknown column is appended with that value:
\* afterwards the header has the column and the new row of the sheet, and of
\* the table read_df loads, holds the value.
C21_OpenColumnSet ==
    /\ op = "ensure_header" => ~HasRaised(ret)
    /\ (op = "append_row" /\ UnknownColumn \in DOMAIN LastAppended) =>
          /\ UnknownIndex > 0
          /\ values[Len(values)][UnknownIndex] = SheetText(LastAppended[UnknownColumn])
          /\ \E f \in {read_df(values)} :
                /\ HasCol(f, UnknownColumn)
                /\ f.rows[NRows(f)][UnknownColumn] = LastAppended[UnknownColumn]

\* a worksheet with the extended header: ensure_header raises
C21_ExtendedHeaderRejected ==
    /\ op = "ensure_header"
    /\ values = <<ExtendedHeader>>
    /\ HasRaised(ret)

\* the appends, by their place in the order of the calls, whose row has a
\* value for column c that is not empty and not 0
AppendsWith(c) == {i \in DOMAIN arg : c \in DOMAIN arg[i] /\ ~_is_blank_like(arg[i][c])}

\* C22: after any sequence of append_row calls, get_latest_values returns
\* for each column other than date the value given by the most recent append
\* whose value for the column was non-empty and not 0, and omits the column
\* when there is no such append; a value it returns is never an empty or a
\* NaN cell.
C22_LatestAppendedValue ==
    op = "get_latest_values" =>
        \A c \in PortfolioColumnSet \ {"date"} :
            \E hits \in {AppendsWith(c)} :
                IF hits = {} THEN c \notin DOMAIN ret
                ELSE /\ c \in DOMAIN ret
                     /\ ret[c] \notin {PyNaN, PyStr(s_empty)}
                     /\ PyEq(ret[c], arg[MaxOf(hits)][c])

\* weight 70 appended, then a row with weight 0: get_latest_values returns
\* NaN as the weight
C22_NaNForLaterEmptyCell ==
    /\ op = "get_latest_values"
    /\ Len(arg) = 2
    /\ arg[1]["weight_kg"] = PyFloat(70, 0)
    /\ arg[2]["weight_kg"] = PyFloat(0, 0)
    /\ "weight_kg" \in DOMAIN ret
    /\ ret["weight_kg"] = PyNaN

-----------------------------------------------------------------------------
(* properties of a saved row read back, checked under SpecSheet *)

\* the last row of the table read_df loads from the worksheet
ReloadedRow == Only({f.rows[NRows(f)] : f \in {read_df(values)}})

\* C29: every value of a portfolio row that is not blank-like survives a
\* save and reload: after append_row(row), read_df yields for the new row
\* the same value for each column, and a row saved with tcenter = False is
\* read back and resolved as False, not as a row where tcenter was never
\* entered.
C29_SavedValuesReadBack ==
    op = "append_row" =>
        /\ \A c \in PortfolioColumnSet :
              ~_is_blank_like(LastAppended[c]) => PyEq(ReloadedRow[c], LastAppended[c])
        /\ LastAppended["tcenter"] = PyFalse =>
              /\ ReloadedRow["tcenter"] = PyFalse
              /\ \E latest \in {get_latest_values(values)} :
                    "tcenter" \in DOMAIN latest /\ latest["tcenter"] = PyFalse

\* a row with tcenter = False has been appended: its cell is empty and
\* read_df yields NaN, as for a row without tcenter
C29_FalseReadBackAsNaN ==
    /\ op = "append_row"
    /\ LastAppended["tcenter"] = PyFalse
    /\ values[Len(values)][ColIndex("tcenter")] = s_empty
    /\ ReloadedRow["tcenter"] = PyNaN

-----------------------------------------------------------------------------
(* properties of the page after a save, checked under Spec *)

\* the records of the worksheet saved for the selected date
SavedForSelected == {i \in SheetRecords : SheetCell(i, "date") = isoformat(d)}

\* C23: once a row for the selected date has been saved through
\* PortfolioStorage.append_row, the next run of the page loads it: the table
\* handed to _values_for_selected_date has the records of the worksheet, the
\* saved values that are not blank are the form defaults, and the page
\* reports the record as loaded (selected_values is not empty).
C23_SavedRowLoaded ==
    (PageShown /\ SavedForSelected # {}) =>
        /\ NRows(ret.df_all) = Len(values) - 1
        /\ ret.selected_values # EmptyDict
        /\ \E i \in {MaxOf(SavedForSelected)} :
              \A c \in {"weight_kg", "note"} :
                  SheetCell(i, c) # s_empty =>
                      /\ c \in DOMAIN ret.selected_values
                      /\ Str(ret.selected_values[c]) = SheetCell(i, c)

\* a row with weight 70 was saved for the selected date and the script has
\* run again: the table it loaded has no record and the form gets no value
C23_SavedRowNotLoaded ==
    /\ op = "save"
    /\ Len(values) = 2
    /\ SheetCell(2, "date") = isoformat(d)
    /\ SheetCell(2, "weight_kg") = <<"7", "0">>
    /\ NRows(ret.df_all) = 0
    /\ ret.selected_values = EmptyDict

-----------------------------------------------------------------------------
(* properties of the streak, checked under SpecStreak *)

\* the log was loaded and has rows and the columns date, day and done
StreakLogRead ==
    IF HasRaised(df) THEN FALSE
    ELSE ~DfEmpty(df) /\ {"date", "day", "done"} \subseteq Range(df.columns)

\* the ordinals of the training days: the days of the rows with done true, a
\* day other than WEIGHT and a date that parses
TrainingOrdinals ==
    IF ~StreakLogRead THEN {}
    ELSE {toordinal(PyDate(to_datetime(df.rows[i]["date"]).n)) :
             i \in {j \in DOMAIN df.rows :
                       /\ to_datetime(df.rows[j]["date"]) # NaT
                       /\ StreakDone(df.rows[j]["done"])
                       /\ df.rows[j]["day"].s # s_WEIGHT}}

\* the number of days in a row, going back from the latest one, that are in T
RunLength(T) ==
    IF T = {} THEN 0
    ELSE Only({MaxOf({k \in 1..Cardinality(T) : \A j \in 0..(k - 1) : (last - j) \in T})
               : last \in {MaxOf(T)}})

\* C24: _calc_streak_days_from_latest_training returns 0 when the log has no
\* row with done true, a day other than WEIGHT and a date that parses, or
\* cannot be loaded; otherwise it returns the number of consecutive calendar
\* days, ending at the most recent training day and going backwards, that
\* are training days; and the backward scan always ends.
C24_StreakFromLatestTraining ==
    /\ [](pc = "return" => ret = PyInt(RunLength(TrainingOrdinals)))
    /\ <>(pc = "return")

\* three training days in a row over the end of February, found by two
\* passes of the loop
C24_ThreeDaysOverMonthEnd ==
    /\ pc = "return"
    /\ ret = PyInt(3)
    /\ d = PyDate(20240228)
    /\ TrainingOrdinals = {toordinal(PyDate(20240301)) - j : j \in 0..2}

-----------------------------------------------------------------------------
(* properties of the roadmap row of a month, checked under SpecRoadmap *)

\* the calendar month a text YYYY-MM names, counted in months; 0 if it names none
MonthNumber(t) ==
    IF /\ Len(t) = 7 /\ AllDigits(SubSeq(t, 1, 4)) /\ t[5] = "-" /\ AllDigits(SubSeq(t, 6, 7))
       /\ DigitsToInt(SubSeq(t, 6, 7)) \in 1..12
    THEN 12 * DigitsToInt(SubSeq(t, 1, 4)) + DigitsToInt(SubSeq(t, 6, 7))
    ELSE 0

\* the rows of the loaded table whose period, as calendar months, has month t
RowsOfMonth(t) ==
    {i \in DOMAIN df.rows :
        \E s \in {MonthNumber(df.rows[i]["start_ym"].s)}, e \in {MonthNumber(df.rows[i]["end_ym"].s)},
           k \in {MonthNumber(t)} :
            s > 0 /\ e > 0 /\ k > 0 /\ s <= k /\ k <= e}

\* the labels of the rows of a table
Labels(f) == Range(f.index)

\* C25, as the code has it.  For a ym that norm_ym brings to a month,
\* pick_active_rows returns, of the rows whose start_ym and end_ym are
\* months, exactly those whose period contains the month, and of the rows
\* with an empty start_ym and a month as end_ym those that end in the month
\* or later; a row with an empty end_ym is never returned.  For a ym that is
\* None, empty or blank no row is returned.  The row pick_latest_row returns
\* is one of the rows given whose start_ym is the latest, an empty start_ym
\* being the earliest.
C25_ActiveRowsOfNormalisedMonth ==
    /\ (op = "pick_active_rows" /\ norm_ym(arg) = s_empty) => Labels(ret) = {}
    /\ (op = "pick_active_rows" /\ MonthNumber(norm_ym(arg)) > 0) =>
          \E t \in {norm_ym(arg)} :
              \A i \in DOMAIN df.rows :
                  \E s \in {df.rows[i]["start_ym"].s}, e \in {df.rows[i]["end_ym"].s} :
                      (i \in Labels(ret)) <=>
                          /\ MonthNumber(e) > 0
                          /\ MonthNumber(t) <= MonthNumber(e)
                          /\ s = s_empty \/ (MonthNumber(s) > 0 /\ MonthNumber(s) <= MonthNumber(t))
    /\ op = "render_roadmap" =>
          IF Labels(ret.hit) = {} THEN ret.chosen = PyNone
          ELSE /\ ret.chosen # PyNone
               /\ ret.chosen.name \in Labels(ret.hit)
               /\ \A i \in Labels(ret.hit) :
                     MonthNumber(df.rows[i]["start_ym"].s) <= MonthNumber(ret.chosen.start_ym.s)

\* C25 as stated: pick_active_rows returns exactly the rows whose period
\* contains the month as calendar months, and no row for a ym that is empty
\* or names no month; pick_latest_row returns one of the rows given whose
\* start_ym is the latest.
C25_ActiveRowsByCalendarMonth ==
    /\ op = "pick_active_rows" => Labels(ret) = RowsOfMonth(norm_ym(arg))
    /\ op = "render_roadmap" =>
          IF Labels(ret.hit) = {} THEN ret.chosen = PyNone
          ELSE /\ ret.chosen # PyNone
               /\ ret.chosen.name \in Labels(ret.hit)
               /\ \A i \in Labels(ret.hit) :
                     MonthNumber(df.rows[i]["start_ym"].s) <= MonthNumber(ret.chosen.start_ym.s)

\* two rows whose periods have the month of the page, the second starting
\* later: the page adopts the second
C25_LaterStartAdopted ==
    /\ op = "render_roadmap"
    /\ Labels(ret.hit) = {1, 2}
    /\ MonthNumber(df.rows[1]["start_ym"].s) > 0
    /\ MonthNumber(df.rows[1]["start_ym"].s) < MonthNumber(df.rows[2]["start_ym"].s)
    /\ ret.chosen.name = 2

\* the rows the roadmap page may adopt for the month of arg
PageAdopted ==
    Only({IF DfEmpty(hit) THEN {PyNone} ELSE pick_latest_row(hit)
          : hit \in {pick_active_rows(df, arg)}})

\* C30: for every roadmap table and every month, the row the roadmap page
\* adopts (pick_latest_row of pick_active_rows) is the row the report uses
\* (_pick_roadmap_row_for_ym), also when the periods of several rows have
\* the month and when none has.
C30_PageAndReportAgree ==
    /\ op = "render_roadmap" => ret.chosen = _pick_roadmap_row_for_ym(df, arg.s)
    /\ op = "_pick_roadmap_row_for_ym" => ret \in PageAdopted

\* the periods of both rows have the month, the second row starts later:
\* the report uses the first row, the page adopts the second
C30_ReportUsesFirstRow ==
    /\ op = "_pick_roadmap_row_for_ym"
    /\ NRows(df) = 2
    /\ ret # PyNone
    /\ ret.name = 1
    /\ PageAdopted = {SeriesAt(df, 2)}

-----------------------------------------------------------------------------
(* properties of the report, checked under SpecReport *)

\* the calendar day of a date cell of the portfolio table, 0 if it has none
DayOfCell(v) == to_datetime(v).n

\* the places, in the input table, of the rows of the report
ReportedPlaces == {DigitsToInt(ret.portfolio.rows[k]["note"].s) : k \in DOMAIN ret.portfolio.rows}

\* start and end both are dates
PeriodGiven ==
    ~IsNaTs(to_datetime_scalar(arg.start_date)) /\ ~IsNaTs(to_datetime_scalar(arg.end_date))

\* C26: build_report_data returns in its portfolio field exactly the input
\* rows whose date parses and lies in the period from start_date to
\* end_date, both days included, in ascending order of the date; with a
\* start or end that is no date it does not raise, keeps every row whose
\* date parses and returns no month; meta.portfolio_rows is the number of
\* rows returned.
C26_ReportPeriod ==
    op = "build_report_data" =>
        /\ ~HasRaised(ret)
        /\ Cardinality(ReportedPlaces) = NRows(ret.portfolio)
        /\ ReportedPlaces =
              {i \in DOMAIN df.rows :
                  /\ DayOfCell(df.rows[i]["date"]) > 0
                  /\ PeriodGiven =>
                        /\ to_datetime_scalar(arg.start_date).n <= DayOfCell(df.rows[i]["date"])
                        /\ DayOfCell(df.rows[i]["date"]) <= to_datetime_scalar(arg.end_date).n}
        /\ \A k \in DOMAIN ret.portfolio.rows :
              ret.portfolio.rows[k]["date"] =
                  df.rows[DigitsToInt(ret.portfolio.rows[k]["note"].s)]["date"]
        /\ \A k \in 1..(NRows(ret.portfolio) - 1) :
              DayOfCell(ret.portfolio.rows[k]["date"]) <= DayOfCell(ret.portfolio.rows[k + 1]["date"])
        /\ ~PeriodGiven => ret.months = << >>
        /\ ret.meta.portfolio_rows = NRows(ret.portfolio)

\* three rows dated 2 February, 31 January and 1 February, the period from
\* 1 to 2 February: the report has the third and the first row, in this order
C26_TwoRowsOfPeriodSorted ==
    /\ op = "build_report_data"
    /\ arg = [start_date |-> PyDate(20240201), end_date |-> PyDate(20240202)]
    /\ NRows(df) = 3
    /\ df.rows[1]["date"] = PyStr(isoformat(PyDate(20240202)))
    /\ df.rows[2]["date"] = PyStr(isoformat(PyDate(20240131)))
    /\ df.rows[3]["date"] = PyStr(isoformat(PyDate(20240201)))
    /\ NRows(ret.portfolio) = 2
    /\ ret.portfolio.rows[1]["note"] = PyStr(<<"3">>)
    /\ ret.portfolio.rows[2]["note"] = PyStr(<<"1">>)

-----------------------------------------------------------------------------
(* properties of the upserts of the training log, checked under SpecUpsert *)

\* the key of a record of the log: the day of its date, its day and its item
RecordKey(row) == <<StrfDate(row["date"]), row["day"], row["item"]>>

\* the key of the last call
CallKey == <<PyStr(isoformat(arg.dv)), PyStr(arg.day_key), PyStr(arg.name)>>

\* the rows of the log f with the key k
RowsWithKey(f, k) == {i \in DOMAIN f.rows : RecordKey(f.rows[i]) = k}

OneRowPerKey(f) ==
    \A i, j \in DOMAIN f.rows :
        RecordKey(f.rows[i]) = RecordKey(f.rows[j]) => i = j

\* C27: from a log with at most one row per key (date, day, item), every
\* sequence of upsert_done_row and upsert_weight calls yields a log with at
\* most one row per key; an upsert on an existing key changes only that row
\* and keeps the row count, an upsert on a new key adds exactly one row and
\* changes no other row.
C27_OneRowPerKey ==
    /\ OneRowPerKey(df)
    /\ op \in {"upsert_done_row", "upsert_weight"} =>
          \E hits \in {RowsWithKey(prior, CallKey)} :
              /\ RowsWithKey(df, CallKey) # {}
              /\ IF hits # {}
                 THEN /\ NRows(df) = NRows(prior)
                      /\ \A i \in DOMAIN prior.rows :
                            i \notin hits => df.rows[i] = prior.rows[i]
                 ELSE /\ NRows(df) = NRows(prior) + 1
                      /\ \A i \in DOMAIN prior.rows : df.rows[i] = prior.rows[i]
                      /\ RecordKey(df.rows[NRows(df)]) = CallKey

\* a weight of a day that has one is replaced in a log of three records,
\* and a record of a new key has been added to a log of two
C27_WeightReplacedInPlace ==
    /\ op = "upsert_weight"
    /\ NRows(prior) = 3
    /\ NRows(df) = 3
    /\ \E i \in RowsWithKey(prior, CallKey) :
          /\ i < 3
          /\ prior.rows[i]["weight"] = PyFloat(55, 0)
          /\ df.rows[i]["weight"] = PyFloat(605, 1)

-----------------------------------------------------------------------------
(* properties of two sessions saving, checked under SpecSessions *)

\* the rows of the store, without the header
StoredRows == IF page = "app.py" THEN Tail(values) ELSE Tail(csv)

\* the store holds a record of the date of the session
SavedBy(sid) ==
    \E i \in DOMAIN StoredRows :
        StoredRows[i][IndexOf(CsvColumns(page), "date")] = isoformat(SessionDate(sid))

BothSavesCompleted == \A sid \in Sessions : pc[sid] = "done"

\* C28: when two sessions each save one record and the two saves interleave
\* (the read-concat-write appends of CSVStorage, or Storage.save of app.py
\* rewriting the whole sheet from the table the session loaded), both
\* records are in the store once both saves have completed.
C28_NoCompletedSaveLost ==
    BothSavesCompleted => \A sid \in Sessions : SavedBy(sid)

\* both sessions have read the portfolio file before either wrote it: the
\* file holds the record of one session and not that of the other
C28_SecondWriteDropsFirst ==
    /\ page = "append_portfolio_row"
    /\ BothSavesCompleted
    /\ prior[1] = prior[2]
    /\ Len(csv) = Len(prior[1]) + 1
    /\ Len(prior[1]) = 2
    /\ \E sid \in Sessions : SavedBy(sid) /\ ~SavedBy(3 - sid)

====
